---- MODULE Spec2Model ----
(***************************************************************************)
(* SPED-AGI quantum core: the QuantumMemoryInterface of                    *)
(* core/quantum/memory_interface.py with the collaborators it calls        *)
(* (timestamp service, logging service, error mitigation), the             *)
(* ErrorMitigationSystem of core/quantum/error_mitigation.py, the          *)
(* QuantumEncoder of core/quantum/encoding_methods.py and the              *)
(* QuantumCircuitManager of core/quantum/quantum_circuit.py, each under a  *)
(* specification of its own (Spec, SpecMitigation, SpecEncoder,            *)
(* SpecCircuit) and all four under SpecCore; one memory interface shared   *)
(* by several threads (SpecConcurrent); and the                            *)
(* KnowledgeRepresentationSystem of the cognitive layer (SpecKnowledge).   *)
(*                                                                         *)
(* Numbers: a fidelity is a Python float in the source.  Here it is a      *)
(* fixed-point integer counted in 1/40000ths (Unit = 1.0), small enough    *)
(* for a product of two of them to stay within 32 bits; products are       *)
(* rounded down.                                                           *)
(***************************************************************************)
EXTENDS Integers, Sequences, FiniteSets, TLC

VARIABLES
    memory_states,  \* self.memory_states: state ID -> MemoryState
    now,            \* the timestamp service's clock (whole seconds)
    last,           \* the last public call: arguments, outcome, log events
    stored_data,    \* history: state ID -> the data vector given to store_state
    returned_ids,   \* history: the IDs returned by store_state, in call order
    decays,         \* history: state ID -> number of decays applied to it
    workload,       \* the caller's profile (see Workloads), fixed at start
    logger_faulty,  \* whether log_event may raise in this run, fixed at start
    mit_last,       \* the last call on a stand-alone ErrorMitigationSystem
    enc_n_qubits,   \* self.n_qubits of a stand-alone QuantumEncoder
    enc_last,       \* the last call on that QuantumEncoder
    qcm_n_qubits,   \* self.n_qubits of a stand-alone QuantumCircuitManager
    qcm_last,       \* the last call on that QuantumCircuitManager
    knowledge_nodes, \* self.knowledge_nodes of a KnowledgeRepresentationSystem
    kn_last,        \* the last call on that KnowledgeRepresentationSystem
    threads         \* the callers sharing one interface: thread -> its frame

vars == <<memory_states, now, last, stored_data, returned_ids, decays,
          workload, logger_faulty, mit_last, enc_n_qubits, enc_last,
          qcm_n_qubits, qcm_last, knowledge_nodes, kn_last, threads>>

\* the circuit manager, the knowledge system and the concurrent callers
later == <<qcm_n_qubits, qcm_last, knowledge_nodes, kn_last, threads>>

\* the objects a specification does not construct
others == <<mit_last, enc_n_qubits, enc_last, later>>

----------------------------------------------------------------------------
(* Bounds of the model *)

\* n_qubits of the QuantumCircuitManager the interface is built on
NQubits == 2
\* store_state calls that persist a state, per run
MaxStates == 2
\* last value of the clock
MaxTime == 1
\* decays applied to one state, except under the "aged" workload
MaxMonitor == 1
\* decays applied to one state under the "aged" workload: enough for a
\* fidelity to fall below the 0.9 warning threshold (exp(-0.11) < 0.9)
MaxAgedMonitor == 11

\* What the caller does in a run:
\* "sizes":   data of every length around the capacity, the default scheme;
\* "schemes": every scheme name, known or not, one data vector;
\* "metadata": every kind of metadata, the default scheme, one data vector;
\* "aged":    the default scheme, one data vector, many monitor passes.
Workloads == {"sizes", "schemes", "metadata", "aged"}

----------------------------------------------------------------------------
(* Fixed-point arithmetic *)

Unit == 4 * 10^4

Mul(a, b) == (a * b) \div Unit

\* the n-th term x^n / n! of the exponential series
RECURSIVE ExpTerm(_, _)
ExpTerm(x, n) == IF n = 0 THEN Unit ELSE (ExpTerm(x, n - 1) * x) \div (n * Unit)

\* exp(-x) for 0 <= x <= Unit, by the alternating series up to x^6/6!
ExpNeg(x) ==
    ExpTerm(x, 0) - ExpTerm(x, 1) + ExpTerm(x, 2) - ExpTerm(x, 3)
        + ExpTerm(x, 4) - ExpTerm(x, 5) + ExpTerm(x, 6)

Min(a, b) == IF a < b THEN a ELSE b

----------------------------------------------------------------------------
(* Program constants *)

\* fidelity=1.0 of a new MemoryState
InitialFidelity == Unit
\* the 0.9 of "if memory_state.fidelity < 0.9" / "if state.fidelity < 0.9"
WarnThreshold == (9 * Unit) \div 10
\* the 0.1 of np.exp(-0.1 * time_stored)
DecayRate == Unit \div 10
\* the 0.1 returned by _calculate_storage_time
SimulatedStorageTime == Unit \div 10

\* self.encoding_schemes.keys()
encoding_schemes == {"direct", "compressed", "error_protected"}

\* metadata = {} when the caller passes none.  A metadata dict is kept as
\* the sequence of the kinds of its values.
DefaultMetadata == <<>>

----------------------------------------------------------------------------
(* Inputs *)

\* a data vector of length k with distinct non-zero entries
DataOf(k) == [i \in 1..k |-> i]

DataInputs ==
    IF workload = "sizes"
    THEN {DataOf(k) : k \in (NQubits - 1)..(NQubits + 1)}
    ELSE {DataOf(NQubits)}

\* encoding_scheme = "error_protected" when the caller passes none
DefaultScheme == "error_protected"

SchemeInputs ==
    IF workload = "schemes"
    THEN encoding_schemes \cup {"unknown_scheme"}
    ELSE {DefaultScheme}

\* metadata whose values json.dumps can write, and metadata holding a value
\* it cannot (any Python object is allowed in the dict)
MetadataInputs ==
    IF workload = "metadata"
    THEN {DefaultMetadata, <<"text">>, <<"object">>}
    ELSE {DefaultMetadata}

\* an ID no store_state ever generates
InvalidStateId == <<-1, -1>>

IdInputs == DOMAIN memory_states \cup {InvalidStateId}

MonitorLimit == IF workload = "aged" THEN MaxAgedMonitor ELSE MaxMonitor

----------------------------------------------------------------------------
(* Collaborators *)

\* TimestampManager.get_current_timestamp(): the clock's reading
get_current_timestamp == now

\* One log_event call: the event it is asked to record
Event(level, msg) == [level |-> level, msg |-> msg]

\* json.dumps(event_data) succeeds: no field holds an arbitrary object or a
\* numpy array (both make it raise TypeError)
JsonSerializable(fields) ==
    \A i \in 1..Len(fields) : fields[i] \notin {"object", "ndarray"}

\* log_event raises: json.dumps raises TypeError on the event's fields, or
\* the call is one of those (F) that the faulty logging service fails
log_event_raises(msg, fields, F) == ~JsonSerializable(fields) \/ msg \in F

\* The log_event calls of one operation that raise: none when the logger
\* is healthy, at most one of the operation's messages when it is faulty
\* (after a first raise the operation is already on its way out with an
\* exception, and a second raise changes nothing the caller can see)
FailChoices(msgs) ==
    IF logger_faulty THEN {{}} \cup {{m} : m \in msgs} ELSE {{}}


----------------------------------------------------------------------------
(* ErrorMitigationSystem *)

\* strategies argument sequences are at most this long
MaxStrategies == 3

\* list(range(n)): 0, 1, .., n-1
Range(n) == [i \in 1..n |-> i - 1]

\* self.error_models: name -> ErrorModel (type plays no part in any
\* operation), in insertion order; the rates are 0.001, 0.0005 and 0.002
ErrorModelNames == <<"decoherence", "gate_error", "measurement">>

error_models ==
    [name \in {"decoherence", "gate_error", "measurement"} |->
        [name |-> name,
         rate |-> CASE name = "decoherence" -> Unit \div 1000
                    [] name = "gate_error" -> Unit \div 2000
                    [] name = "measurement" -> Unit \div 500,
         affected_qubits |-> Range(NQubits),
         mitigation_strategy |->
            CASE name = "decoherence" -> "dynamical_decoupling"
              [] name = "gate_error" -> "gate_optimization"
              [] name = "measurement" -> "readout_error_mitigation"]]

\* strategies = None, kept as a one-element list no caller passes
None == <<"None">>

\* strategies = ["decoherence", "gate_error", "measurement"] when None
DefaultStrategies == <<"decoherence", "gate_error", "measurement">>

\* names a caller may pass: the three error models, the name of a
\* mitigation technique (not an error model) and a misspelt name
StrategyNames == {"decoherence", "gate_error", "measurement",
                  "dynamical_decoupling", "unknown_strategy"}

RECURSIVE SeqsUpTo(_, _)
\* the sequences over S of length at most n
SeqsUpTo(S, n) ==
    IF n = 0 THEN {<<>>}
    ELSE LET shorter == SeqsUpTo(S, n - 1)
         IN  shorter \cup {Append(q, x) : q \in shorter, x \in S}

StrategyInputs == {None} \cup SeqsUpTo(StrategyNames, MaxStrategies)

\* _apply_strategy: the result record of one error model, updated with what
\* the model's technique returns
apply_strategy(error_model) ==
    LET s == error_model.mitigation_strategy
    IN  [model |-> error_model.name,
         affected_qubits |-> error_model.affected_qubits,
         method |-> CASE s = "dynamical_decoupling" -> "dynamical_decoupling"
                      [] s = "gate_optimization" -> "gate_optimization"
                      [] s = "readout_error_mitigation" -> "readout_mitigation"
                      [] OTHER -> "none",
         success |-> s \in {"dynamical_decoupling", "gate_optimization",
                            "readout_error_mitigation"}]

RECURSIVE AppliedStrategiesInModelOrder(_, _)
\* AppliedStrategies looping over the error models instead of the request:
\* for name in self.error_models: if name in strategies
AppliedStrategiesInModelOrder(strategies, i) ==
    IF i > Len(ErrorModelNames) THEN <<>>
    ELSE LET name == ErrorModelNames[i]
             rest == AppliedStrategiesInModelOrder(strategies, i + 1)
         IN  IF \E k \in 1..Len(strategies) : strategies[k] = name
             THEN <<apply_strategy(error_models[name])>> \o rest
             ELSE rest

RECURSIVE AppliedStrategies(_, _)
\* the for loop of apply_error_mitigation from the i-th strategy on: one
\* result per strategy that names an error model, the others skipped
AppliedStrategies(strategies, i) ==
    IF i > Len(strategies) THEN <<>>
    ELSE LET strategy == strategies[i]
             rest == AppliedStrategies(strategies, i + 1)
         IN  IF strategy \in DOMAIN error_models
             THEN <<apply_strategy(error_models[strategy])>> \o rest
             ELSE rest

MitigationMessages == {"Error mitigation applied", "Error mitigation failed"}

\* apply_error_mitigation: the report, one INFO event (its fields are
\* numbers, strings and lists of them) and, when that log_event raises, one
\* ERROR event before re-raising
MitigationOutcome(strategies, F) ==
    LET requested == IF strategies = None THEN DefaultStrategies ELSE strategies
        applied == AppliedStrategies(requested, 1)
    IN  IF log_event_raises("Error mitigation applied", <<"number", "list">>, F)
        THEN [status |-> "LoggingFailure",
              applied_strategies |-> <<>>,
              log |-> <<Event("INFO", "Error mitigation applied"),
                        Event("ERROR", "Error mitigation failed")>>]
        ELSE [status |-> "ok",
              applied_strategies |-> applied,
              log |-> <<Event("INFO", "Error mitigation applied")>>]

\* apply_error_mitigation as store_state calls it, with no strategies
\* argument; the circuit and the error models are left alone
apply_error_mitigation(F) ==
    LET out == MitigationOutcome(None, F)
    IN  [raised |-> out.status # "ok", log |-> out.log]

\* a call on a component that has only been constructed
NoCall == [op |-> "init", status |-> "ok", calls |-> 0]

\* apply_error_mitigation called on the system itself
apply_mitigation(strategies, F) ==
    LET out == MitigationOutcome(strategies, F)
    IN  /\ mit_last' = [op |-> "apply",
                        strategies |-> strategies,
                        status |-> out.status,
                        applied_strategies |-> out.applied_strategies,
                        log |-> out.log]
        /\ UNCHANGED <<memory_states, now, last, stored_data, returned_ids,
                       decays, workload, logger_faulty, enc_n_qubits, enc_last,
                       later>>

\* _calculate_error_rate reporting a degradation: error_model.rate * 1.1
CalculateErrorRateDegraded(error_model) == (error_model.rate * 11) \div 10

\* _calculate_error_rate: error_model.rate * 0.9
calculate_error_rate(error_model) == (error_model.rate * 9) \div 10

AnalysisMessages == {"Error rate analysis completed", "Error rate analysis failed"}

\* analyze_error_rates: one entry per error model, one INFO event (its
\* fields are numbers, strings and dicts of them); the circuit only gives
\* its id, and the error models are read, never assigned
AnalyzeOutcome(circuit, F) ==
    LET error_rates ==
            [model_name \in DOMAIN error_models |->
                LET model == error_models[model_name]
                    current_rate == calculate_error_rate(model)
                IN  [current_rate |-> current_rate,
                     threshold |-> model.rate,
                     status |-> IF current_rate > model.rate
                                THEN "needs_mitigation" ELSE "acceptable"]]
    IN  IF log_event_raises("Error rate analysis completed", <<"number", "dict">>, F)
        THEN [status |-> "LoggingFailure",
              error_rates |-> <<>>,
              error_models |-> error_models,
              log |-> <<Event("INFO", "Error rate analysis completed"),
                        Event("ERROR", "Error rate analysis failed")>>]
        ELSE [status |-> "ok",
              error_rates |-> error_rates,
              error_models |-> error_models,
              log |-> <<Event("INFO", "Error rate analysis completed")>>]

\* analyze_error_rates called on the system
analyze_error_rates(circuit, F) ==
    LET out == AnalyzeOutcome(circuit, F)
    IN  /\ mit_last' = [op |-> "analyze",
                        circuit |-> circuit,
                        status |-> out.status,
                        error_rates |-> out.error_rates,
                        error_models |-> out.error_models,  \* after the call
                        log |-> out.log]
        /\ UNCHANGED <<memory_states, now, last, stored_data, returned_ids,
                       decays, workload, logger_faulty, enc_n_qubits, enc_last,
                       later>>

----------------------------------------------------------------------------
(* QuantumMemoryInterface: helpers *)

\* A Python dict assignment d[k] = v
DictSet(d, k, v) == [x \in DOMAIN d \cup {k} |-> IF x = k THEN v ELSE d[x]]

\* The keys of a dict in iteration (insertion) order.  A key is
\* <<timestamp, count>>; the clock never runs backwards and the count never
\* falls, so insertion order is the order by count, then by timestamp.
KeyBefore(a, b) == a[2] < b[2] \/ (a[2] = b[2] /\ a[1] < b[1])

RECURSIVE KeysInOrder(_)
KeysInOrder(S) ==
    IF S = {} THEN <<>>
    ELSE LET m == CHOOSE x \in S : \A y \in S \ {x} : KeyBefore(x, y)
         IN  <<m>> \o KeysInOrder(S \ {m})

\* generate_state_id without the count: f"state_{timestamp}"
GenerateStateIdTimestampOnly(states) == <<get_current_timestamp, 0>>

\* f"state_{timestamp}_{len(self.memory_states)}", kept as the pair of its
\* two variable parts
generate_state_id(states) == <<get_current_timestamp, Cardinality(DOMAIN states)>>

\* Python's s[:n] for n >= 0: the first n elements, or all of s when shorter
SlicePrefix(s, n) == SubSeq(s, 1, Min(n, Len(s)))

\* allocate_qubits without the slice of the pool: range(len(encoded_state))
AllocateQubitsUntruncated(encoded_state) == Range(Len(encoded_state))

\* allocate_qubits taking from the pool what no stored state holds:
\* available_qubits = [q for q in range(N) if q not in used]
AllocateQubitsFromFree(encoded_state) ==
    LET used(q) == \E id \in DOMAIN memory_states :
                      \E i \in 1..Len(memory_states[id].qubits) :
                          memory_states[id].qubits[i] = q
        available_qubits == SelectSeq(Range(NQubits), LAMBDA q : ~used(q))
    IN  SlicePrefix(available_qubits, Len(encoded_state))

\* _allocate_qubits: the first len(encoded_state) of the N qubit indices
allocate_qubits(encoded_state) ==
    LET n_required == Len(encoded_state)
        available_qubits == Range(NQubits)
    IN  SlicePrefix(available_qubits, n_required)

direct_encoding(data) == data

compressed_encoding(data) == data

error_protected_encoding(data) == data

\* self.encoding_schemes[encoding_scheme](data)
Encode(encoding_scheme, data) ==
    CASE encoding_scheme = "direct" -> direct_encoding(data)
      [] encoding_scheme = "compressed" -> compressed_encoding(data)
      [] encoding_scheme = "error_protected" -> error_protected_encoding(data)

\* np.zeros(n)
Zeros(n) == [i \in 1..n |-> 0]

\* _decode_state: a zero vector, one entry per allocated qubit
decode_state(memory_state) == Zeros(Len(memory_state.qubits))

\* calculate_storage_time with no time elapsed
CalculateStorageTimeZero(stored_timestamp) == 0

\* _calculate_storage_time: the same duration for every timestamp
calculate_storage_time(stored_timestamp) == SimulatedStorageTime

\* DecayedFidelity with the sign of the exponent dropped: exp(+0.1 * t)
DecayedFidelitySignDropped(fidelity, time_stored) ==
    (fidelity * Unit) \div ExpNeg(Mul(DecayRate, time_stored))

\* state.fidelity *= np.exp(-0.1 * time_stored)
DecayedFidelity(fidelity, time_stored) ==
    Mul(fidelity, ExpNeg(Mul(DecayRate, time_stored)))

----------------------------------------------------------------------------
(* The record of a public call *)

NoVector == <<>>
NoFidelities == <<>>

\* whether one of the log_event calls made, all with fields json.dumps can
\* write, is among those that raise
LogFailed(log, F) == \E i \in 1..Len(log) : log_event_raises(log[i].msg, <<>>, F)

Call(op, state_id, data, scheme, status, vector, fidelities, log, log_failed, pre, mitigated) ==
    [op |-> op,                 \* "init", "store", "retrieve", "monitor"
     state_id |-> state_id,     \* retrieve's argument, store's generated ID
     data |-> data,             \* store's data argument
     scheme |-> scheme,         \* store's encoding_scheme argument
     status |-> status,         \* "ok" or the exception the caller sees
     vector |-> vector,         \* retrieve's return value
     fidelities |-> fidelities, \* monitor's return value
     log |-> log,               \* the log_event calls made, in order
     log_failed |-> log_failed, \* one of those log_event calls raised
     pre |-> pre,               \* memory_states before the call
     mitigated |-> mitigated]   \* apply_error_mitigation was invoked

----------------------------------------------------------------------------
(* store_state *)

StoreMessages == {"Error mitigation applied", "State stored", "State storage failed"}

\* the except branch: one ERROR event, then the exception goes on to the
\* caller (the logger's own exception when that log_event raises too)
StoreFailure(e, F, log, states, mitigated) ==
    [status |-> IF log_event_raises("State storage failed", <<>>, F)
                THEN "LoggingFailure" ELSE e,
     states |-> states,
     log |-> Append(log, Event("ERROR", "State storage failed")),
     log_failed |-> e = "LoggingFailure"
                       \/ log_event_raises("State storage failed", <<>>, F),
     mitigated |-> mitigated]

\* StoreOutcome with an unknown scheme name falling back to the default
\* scheme: self.encoding_schemes.get(encoding_scheme, default)
StoreOutcomeDefaulting(data, encoding_scheme, metadata, F) ==
    LET state_id == generate_state_id(memory_states)
        scheme == IF encoding_scheme \in encoding_schemes
                  THEN encoding_scheme ELSE DefaultScheme
        memory_state == [id |-> state_id,
                         qubits |-> allocate_qubits(Encode(scheme, data)),
                         encoding |-> scheme,
                         fidelity |-> InitialFidelity,
                         timestamp |-> get_current_timestamp,
                         metadata |-> metadata]
        mitigation == apply_error_mitigation(F)
    IN  [status |-> "ok",
         states |-> DictSet(memory_states, state_id, memory_state),
         log |-> Append(mitigation.log, Event("INFO", "State stored")),
         log_failed |-> FALSE, mitigated |-> TRUE]

StoreOutcome(data, encoding_scheme, metadata, F) ==
    LET state_id == generate_state_id(memory_states) IN
    IF encoding_scheme \notin encoding_schemes
    THEN StoreFailure("ValueError", F, <<>>, memory_states, FALSE)
    ELSE
      LET encoded_state == Encode(encoding_scheme, data)
          memory_state == [id |-> state_id,
                           qubits |-> allocate_qubits(encoded_state),
                           encoding |-> encoding_scheme,
                           fidelity |-> InitialFidelity,
                           timestamp |-> get_current_timestamp,
                           metadata |-> metadata]
          mitigation == apply_error_mitigation(F)
          stored == DictSet(memory_states, state_id, memory_state)
          logged == Append(mitigation.log, Event("INFO", "State stored"))
      IN  IF mitigation.raised
          THEN StoreFailure("LoggingFailure", F, mitigation.log, memory_states, TRUE)
          \* log_event(..., **vars(memory_state)): the metadata is a field
          ELSE IF log_event_raises("State stored", metadata, F)
          THEN StoreFailure("LoggingFailure", F, logged, stored, TRUE)
          ELSE [status |-> "ok", states |-> stored, log |-> logged,
                log_failed |-> FALSE, mitigated |-> TRUE]

store_state(data, encoding_scheme, metadata, F) ==
    LET state_id == generate_state_id(memory_states)
        out == StoreOutcome(data, encoding_scheme, metadata, F)
        persisted == out.states # memory_states
    IN  /\ Cardinality(DOMAIN memory_states) < MaxStates
        /\ Len(returned_ids) < MaxStates
        /\ memory_states' = out.states
        /\ last' = Call("store", state_id, data, encoding_scheme, out.status,
                        NoVector, NoFidelities, out.log, out.log_failed,
                        memory_states,
                        out.mitigated)
        /\ stored_data' = IF persisted THEN DictSet(stored_data, state_id, data)
                          ELSE stored_data
        /\ decays' = IF persisted THEN DictSet(decays, state_id, 0) ELSE decays
        /\ returned_ids' = IF out.status = "ok" THEN Append(returned_ids, state_id)
                           ELSE returned_ids
        /\ UNCHANGED <<now, workload, logger_faulty, others>>


----------------------------------------------------------------------------
(* retrieve_state *)

RetrieveMessages == {"Low fidelity state retrieval", "State retrieved",
                     "State retrieval failed"}

\* the except branch of retrieve_state
RetrieveFailure(e, F, log) ==
    [status |-> IF log_event_raises("State retrieval failed", <<>>, F)
                THEN "LoggingFailure" ELSE e,
     vector |-> NoVector,
     log |-> Append(log, Event("ERROR", "State retrieval failed"))]

\* RetrieveOutcome without the membership test: a missing state reads as an
\* empty one (self.memory_states.get(state_id))
RetrieveOutcomeUnchecked(state_id, F) ==
    [status |-> "ok",
     vector |-> IF state_id \in DOMAIN memory_states
                THEN decode_state(memory_states[state_id]) ELSE NoVector,
     log |-> <<Event("INFO", "State retrieved")>>]

RetrieveOutcome(state_id, F) ==
    IF state_id \notin DOMAIN memory_states
    THEN RetrieveFailure("KeyError", F, <<>>)
    ELSE
      LET memory_state == memory_states[state_id]
          low == memory_state.fidelity < WarnThreshold
          warned == IF low THEN <<Event("WARNING", "Low fidelity state retrieval")>>
                    ELSE <<>>
          decoded_data == decode_state(memory_state)
          logged == Append(warned, Event("INFO", "State retrieved"))
      IN  IF low /\ log_event_raises("Low fidelity state retrieval", <<>>, F)
          THEN RetrieveFailure("LoggingFailure", F, warned)
          ELSE IF log_event_raises("State retrieved", <<>>, F)
          THEN RetrieveFailure("LoggingFailure", F, logged)
          ELSE [status |-> "ok", vector |-> decoded_data, log |-> logged]

retrieve_state(state_id, F) ==
    LET out == RetrieveOutcome(state_id, F)
    IN  /\ last' = Call("retrieve", state_id, <<>>, "none", out.status,
                        out.vector, NoFidelities, out.log, LogFailed(out.log, F),
                        memory_states, FALSE)
        /\ UNCHANGED <<memory_states, now, stored_data, returned_ids, decays,
                       workload, logger_faulty, others>>

----------------------------------------------------------------------------
(* monitor_state_fidelity *)

\* The for loop over self.memory_states.items(), from the i-th key on.
\* acc: the states so far, the fidelities dict, the events, and whether a
\* log_event raised (which ends the loop).  W: the states whose warning
\* cannot be logged.
RECURSIVE MonitorLoop(_, _, _, _)
MonitorLoop(keys, i, W, acc) ==
    IF i > Len(keys) \/ acc.raised THEN acc
    ELSE
      LET state_id == keys[i]
          state == acc.states[state_id]
          time_stored == calculate_storage_time(state.timestamp)
          fidelity == DecayedFidelity(state.fidelity, time_stored)
          low == fidelity < WarnThreshold
      IN  MonitorLoop(keys, i + 1, W,
            [states |-> [acc.states EXCEPT ![state_id].fidelity = fidelity],
             fidelities |-> DictSet(acc.fidelities, state_id, fidelity),
             log |-> IF low
                     THEN Append(acc.log, Event("WARNING", "State fidelity degrading"))
                     ELSE acc.log,
             raised |-> low /\ state_id \in W])

\* MonitorOutcome with an eviction policy: the states found below the
\* warning threshold are deleted
MonitorOutcomeEvicting(W) ==
    LET loop == MonitorLoop(KeysInOrder(DOMAIN memory_states), 1, W,
                            [states |-> memory_states, fidelities |-> NoFidelities,
                             log |-> <<>>, raised |-> FALSE])
        kept == {id \in DOMAIN loop.states :
                    loop.states[id].fidelity >= WarnThreshold}
    IN  [status |-> "ok", states |-> [id \in kept |-> loop.states[id]],
         fidelities |-> loop.fidelities, decayed |-> DOMAIN loop.fidelities,
         log |-> loop.log, log_failed |-> FALSE]

MonitorOutcome(W) ==
    LET loop == MonitorLoop(KeysInOrder(DOMAIN memory_states), 1, W,
                            [states |-> memory_states, fidelities |-> NoFidelities,
                             log |-> <<>>, raised |-> FALSE])
    IN  IF loop.raised
        THEN [status |-> "LoggingFailure", states |-> loop.states,
              fidelities |-> NoFidelities, decayed |-> DOMAIN loop.fidelities,
              log |-> Append(loop.log, Event("ERROR", "Fidelity monitoring failed")),
              log_failed |-> TRUE]
        ELSE [status |-> "ok", states |-> loop.states,
              fidelities |-> loop.fidelities, decayed |-> DOMAIN loop.fidelities,
              log |-> loop.log, log_failed |-> FALSE]

monitor_state_fidelity(W) ==
    LET out == MonitorOutcome(W)
    IN  /\ \A id \in DOMAIN memory_states : decays[id] < MonitorLimit
        /\ memory_states' = out.states
        /\ last' = Call("monitor", InvalidStateId, <<>>, "none", out.status,
                        NoVector, out.fidelities, out.log, out.log_failed,
                        memory_states, FALSE)
        /\ decays' = [id \in DOMAIN decays |->
                        IF id \in out.decayed THEN decays[id] + 1 ELSE decays[id]]
        /\ UNCHANGED <<now, stored_data, returned_ids, workload, logger_faulty, others>>

\* the states whose warning raises: none when the logger is healthy, at most
\* one when it is faulty (the first raise ends the loop)
WarningFailChoices == FailChoices(DOMAIN memory_states)

----------------------------------------------------------------------------
(* QuantumEncoder: numbers and vectors *)

(* A numpy vector is kept exactly where the source's arithmetic allows it.  *)
(* An entry is mag * e^(i * arg degrees), with mag an integer, or nan; a    *)
(* vector is its entries over the common divisor sqrt(den2).  Dividing by   *)
(* the L2 norm then only replaces den2 by the sum of the squared mags.      *)
(* Angles are kept to whole degrees and cosines to 1/100.                   *)

\* the largest n_qubits a QuantumEncoder is constructed with
MaxQubits == 4
\* the longest data vector given to encode_quantum_state, the vector of
\* the tests apart
MaxDataLen == 4
\* the largest entry of such a vector, in tenths
MaxVal == 2
\* calls made on one encoder (it keeps nothing from one call to the next)
MaxEncoderCalls == 1

\* degrees in a turn: the unit of arg
Turn == 360
\* the unit of a cosine or sine
TrigUnit == 10^2
\* pi in units of 1/Unit
Pi == (31416 * Unit) \div 10^4

Real(m) == [mag |-> m, arg |-> 0, nan |-> FALSE]
NaN == [mag |-> 0, arg |-> 0, nan |-> TRUE]
Vec(entries, den2) == [v |-> entries, den2 |-> den2]

RECURSIVE Pow2(_)
\* 2 ** n
Pow2(n) == IF n = 0 THEN 1 ELSE 2 * Pow2(n - 1)

RECURSIVE ISqrtIn(_, _, _)
\* the integer square root of n, known to lie in lo..hi-1
ISqrtIn(n, lo, hi) ==
    IF hi - lo <= 1 THEN lo
    ELSE LET mid == (lo + hi) \div 2
         IN  IF mid * mid <= n THEN ISqrtIn(n, mid, hi) ELSE ISqrtIn(n, lo, mid)

\* floor(sqrt(n)) for n >= 0
ISqrt(n) == ISqrtIn(n, 0, Min(n, 46340) + 1)

\* cos x and sin x in units of 1/Unit for 0 <= x <= pi/4 in units of 1/Unit
CosSmall(x) == ExpTerm(x, 0) - ExpTerm(x, 2) + ExpTerm(x, 4) - ExpTerm(x, 6)
SinSmall(x) == ExpTerm(x, 1) - ExpTerm(x, 3) + ExpTerm(x, 5)

\* r degrees in radians, in units of 1/Unit
Radians(r) == (r * Pi) \div 180

\* x in units of 1/Unit rounded to units of 1/TrigUnit
ToTrigUnit(x) == (x * TrigUnit + Unit \div 2) \div Unit

\* <<cos, sin>> of r degrees, 0 <= r < 90, in units of 1/TrigUnit
CosSinAcute(r) ==
    IF r <= 45
    THEN <<ToTrigUnit(CosSmall(Radians(r))), ToTrigUnit(SinSmall(Radians(r)))>>
    ELSE <<ToTrigUnit(SinSmall(Radians(90 - r))), ToTrigUnit(CosSmall(Radians(90 - r)))>>

\* <<cos, sin>> of a degrees, any integer a
CosSin(a) ==
    LET d == a % Turn
        q == d \div 90
        cs == CosSinAcute(d % 90)
    IN  CASE q = 0 -> cs
          [] q = 1 -> <<0 - cs[2], cs[1]>>
          [] q = 2 -> <<0 - cs[1], 0 - cs[2]>>
          [] q = 3 -> <<cs[2], 0 - cs[1]>>

RECURSIVE SumSq(_, _)
\* the sum of the squared magnitudes of the entries from the i-th on
SumSq(entries, i) ==
    IF i > Len(entries) THEN 0
    ELSE entries[i].mag * entries[i].mag + SumSq(entries, i + 1)

HasNaN(entries) == \E i \in 1..Len(entries) : entries[i].nan

AllNaN(n) == [i \in 1..n |-> NaN]

\* x / np.linalg.norm(x): numpy divides by a zero or nan norm without
\* raising, and every entry becomes nan
DivideByNorm(x) ==
    IF HasNaN(x.v) \/ SumSq(x.v, 1) = 0
    THEN Vec(AllNaN(Len(x.v)), 1)
    ELSE Vec(x.v, SumSq(x.v, 1))

\* np.pad(x, (0, n - len(x)), 'constant') for n >= len(x)
PadTo(entries, n) ==
    [i \in 1..n |-> IF i <= Len(entries) THEN entries[i] ELSE Real(0)]

\* np.repeat(x, k): each element k times in a row
Repeat(entries, k) ==
    [i \in 1..(k * Len(entries)) |-> entries[((i - 1) \div k) + 1]]

\* np.tile(x, k): the whole vector k times
Tile(entries, k) ==
    [i \in 1..(k * Len(entries)) |-> entries[((i - 1) % Len(entries)) + 1]]

\* x[::k]: the elements at the indices 0, k, 2k, ..
Stride(entries, k) ==
    [i \in 1..((Len(entries) + k - 1) \div k) |-> entries[(i - 1) * k + 1]]

\* x[x != 0]: nan differs from 0
NonZero(entries) == SelectSeq(entries, LAMBDA e : e.nan \/ e.mag # 0)

----------------------------------------------------------------------------
(* QuantumEncoder: encoding and decoding steps *)

EncodingMethods == {"amplitude", "phase", "superdense"}

\* self.configs: the superdense config counts qubit pairs
configs ==
    [method \in EncodingMethods |->
        [method |-> method,
         n_qubits |-> IF method = "superdense" THEN enc_n_qubits \div 2
                      ELSE enc_n_qubits,
         error_protection |-> TRUE]]

\* what a step hands back: a vector, or the exception it raises
Returned(vec) == [err |-> "none", vec |-> vec]
Raised(e) == [err |-> e, vec |-> Vec(<<>>, 1)]

\* _normalize_data
normalize_data(data) == DivideByNorm(data)

\* _amplitude_encode: np.pad raises ValueError on a negative pad width
amplitude_encode(data) ==
    LET n_amplitudes == Pow2(enc_n_qubits)
    IN  IF n_amplitudes < Len(data.v) THEN Raised("ValueError")
        ELSE Returned(DivideByNorm(Vec(PadTo(data.v, n_amplitudes), data.den2)))

\* np.exp(2j * np.pi * x) for the real x = mag / sqrt(den2): modulus 1, the
\* angle x turns, kept to whole degrees
PhaseOf(e, den2) ==
    IF e.nan THEN NaN
    ELSE LET k == ISqrt((Turn * Turn * e.mag * e.mag) \div den2)
         IN  [mag |-> 1,
              arg |-> IF e.mag >= 0 THEN k % Turn ELSE (0 - k) % Turn,
              nan |-> FALSE]

\* _phase_encode: the padded phases, not normalized
phase_encode(data) ==
    LET phases == [i \in 1..Len(data.v) |-> PhaseOf(data.v[i], data.den2)]
        n_phases == Pow2(enc_n_qubits)
    IN  IF n_phases < Len(phases) THEN Raised("ValueError")
        ELSE Returned(Vec(PadTo(phases, n_phases), 1))

\* _create_bell_states: four real 4-vectors over sqrt(2)
bell_states == << <<1, 0, 0, 1>>, <<0, 1, 1, 0>>, <<1, 0, 0, -1>>, <<0, 1, -1, 0>> >>
BellDen2 == 2

RECURSIVE BellSum(_, _, _)
\* the j-th entry of sum(value * bell_states[i % 4]) over the values from
\* the i-th on
BellSum(values, i, j) ==
    IF i > Len(values) THEN 0
    ELSE values[i].mag * bell_states[((i - 1) % 4) + 1][j]
            + BellSum(values, i + 1, j)

\* _superdense_encode: adding a 4-vector to np.zeros(2 ** (2 * n_pairs))
\* raises ValueError (shapes do not broadcast) unless that length is 4
superdense_encode(data) ==
    LET n_pairs == configs["superdense"].n_qubits
        length == Pow2(2 * n_pairs)
        values == SlicePrefix(data.v, n_pairs)
    IN  IF Len(values) >= 1 /\ length # 4 THEN Raised("ValueError")
        ELSE IF Len(values) = 0
        THEN Returned(DivideByNorm(Vec([j \in 1..length |-> Real(0)], 1)))
        ELSE IF HasNaN(values) THEN Returned(Vec(AllNaN(length), 1))
        ELSE Returned(DivideByNorm(
                 Vec([j \in 1..length |-> Real(BellSum(values, 1, j))],
                     data.den2 * BellDen2)))

\* _apply_phase_flip_code / _apply_stabilizer_code
apply_phase_flip_code(entries) == Tile(entries, 9)
apply_stabilizer_code(entries) == Tile(entries, 7)

\* _remove_phase_flip_code / _remove_stabilizer_code
remove_phase_flip_code(entries) == Stride(entries, 9)
remove_stabilizer_code(entries) == Stride(entries, 7)

\* _apply_error_protection
apply_error_protection(state_vector, method) ==
    LET protected ==
            IF method = "amplitude" THEN Repeat(state_vector.v, 3)
            ELSE IF method = "phase" THEN apply_phase_flip_code(state_vector.v)
            ELSE apply_stabilizer_code(state_vector.v)
    IN  DivideByNorm(Vec(protected, state_vector.den2))

\* _remove_error_protection
remove_error_protection(state_vector, method) ==
    LET unprotected ==
            IF method = "amplitude" THEN Stride(state_vector.v, 3)
            ELSE IF method = "phase" THEN remove_phase_flip_code(state_vector.v)
            ELSE remove_stabilizer_code(state_vector.v)
    IN  DivideByNorm(Vec(unprotected, state_vector.den2))

\* np.real of an entry, in units of 1/TrigUnit
RealPart(e) == IF e.nan THEN NaN ELSE Real(e.mag * CosSin(e.arg)[1])

\* _amplitude_decode: the real parts of the non-zero entries
amplitude_decode(state_vector) ==
    LET kept == NonZero(state_vector.v)
    IN  Returned(Vec([i \in 1..Len(kept) |-> RealPart(kept[i])],
                     state_vector.den2 * TrigUnit * TrigUnit))

\* np.angle(z) / (2 * np.pi): the angle in turns, within (-1/2, 1/2]
AngleTurns(e) ==
    IF e.nan THEN NaN
    ELSE LET a == IF e.mag < 0 THEN (e.arg + 180) % Turn ELSE e.arg % Turn
         IN  Real(IF a > 180 THEN a - Turn ELSE a)

\* _phase_decode: the angles of the non-zero entries
phase_decode(state_vector) ==
    LET phases == NonZero(state_vector.v)
    IN  Returned(Vec([i \in 1..Len(phases) |-> AngleTurns(phases[i])],
                     Turn * Turn))

RECURSIVE DotPart(_, _, _, _)
\* part p (1 real, 2 imaginary) of sum(a[k] * b[k]) from the i-th entry on,
\* b real, in units of 1/TrigUnit
DotPart(a, b, i, p) ==
    IF i > Len(a) THEN 0
    ELSE a[i].mag * b[i] * CosSin(a[i].arg)[p] + DotPart(a, b, i + 1, p)

\* np.abs(np.dot(state_vector, bell_state)), in units of 1/TrigUnit
Projection(entries, bell_state) ==
    LET re == DotPart(entries, bell_state, 1, 1)
        im == DotPart(entries, bell_state, 1, 2)
    IN  Real(ISqrt(re * re + im * im))

\* _superdense_decode: np.dot raises ValueError unless the vector has the
\* four entries of a Bell state
superdense_decode(state_vector) ==
    IF Len(state_vector.v) # 4 THEN Raised("ValueError")
    ELSE IF HasNaN(state_vector.v) THEN Returned(Vec(AllNaN(4), 1))
    ELSE Returned(Vec([b \in 1..4 |-> Projection(state_vector.v, bell_states[b])],
                      state_vector.den2 * BellDen2 * TrigUnit * TrigUnit))

RECURSIVE ConjDotPart(_, _, _, _)
\* part p of sum(original[k] * conj(encoded[k])) from the i-th entry on
ConjDotPart(original, encoded, i, p) ==
    IF i > Len(original) THEN 0
    ELSE original[i].mag * encoded[i].mag
            * CosSin(original[i].arg - encoded[i].arg)[p]
            + ConjDotPart(original, encoded, i + 1, p)

\* a fidelity: the fraction num / den, or nan
NoFidelity == [err |-> "none", num |-> 0, den |-> 1, nan |-> FALSE]

\* _calculate_encoding_fidelity: np.dot raises ValueError on vectors of
\* different lengths
calculate_encoding_fidelity(original, encoded) ==
    IF Len(original.v) # Len(encoded.v)
    THEN [NoFidelity EXCEPT !.err = "ValueError"]
    ELSE IF HasNaN(original.v) \/ HasNaN(encoded.v)
    THEN [NoFidelity EXCEPT !.nan = TRUE]
    ELSE LET re == ConjDotPart(original.v, encoded.v, 1, 1)
             im == ConjDotPart(original.v, encoded.v, 1, 2)
         IN  [err |-> "none", num |-> re * re + im * im,
              den |-> original.den2 * encoded.den2 * TrigUnit * TrigUnit,
              nan |-> FALSE]

----------------------------------------------------------------------------
(* QuantumEncoder: encode_quantum_state and decode_quantum_state *)

NoVec == Vec(<<>>, 1)
NoResult == [method |-> "none", state_vector |-> NoVec, n_qubits_used |-> 0,
             error_protected |-> FALSE, fidelity |-> NoFidelity]

\* the kinds of the fields of the "Quantum state encoded" event: timestamp,
\* method, state_vector, n_qubits_used, error_protected, fidelity
EncodedEventFields == <<"text", "text", "ndarray", "number", "bool", "number">>

\* the kinds of the fields of the "Quantum state decoded" event
DecodedEventFields == <<"text", "text", "number">>

EncodeMessages == {"Quantum state encoded", "Encoding failed"}
DecodeMessages == {"Quantum state decoded", "Decoding failed"}

\* the except branch of encode_quantum_state: one ERROR event, then the
\* exception goes on to the caller
EncodeFailure(e, at, encoded, log, F) ==
    [status |-> IF log_event_raises("Encoding failed", <<>>, F)
                THEN "LoggingFailure" ELSE e,
     raised_at |-> at,
     result |-> NoResult,
     encoded |-> encoded,
     log |-> Append(log, Event("ERROR", "Encoding failed"))]

\* the method's encoding step
EncodeStep(method, normalized_data) ==
    CASE method = "amplitude" -> amplitude_encode(normalized_data)
      [] method = "phase" -> phase_encode(normalized_data)
      [] method = "superdense" -> superdense_encode(normalized_data)

EncodeOutcome(data, method, error_protection, F) ==
    IF method \notin DOMAIN configs
    THEN EncodeFailure("ValueError", "method", NoVec, <<>>, F)
    ELSE
      LET config == configs[method]
          normalized_data == normalize_data(data)
          step == EncodeStep(method, normalized_data)
          encoded_state ==
              IF error_protection /\ config.error_protection
              THEN apply_error_protection(step.vec, method)
              ELSE step.vec
          fidelity == calculate_encoding_fidelity(normalized_data, encoded_state)
          encoding_result == [method |-> method,
                              state_vector |-> encoded_state,
                              n_qubits_used |-> Len(encoded_state.v),
                              error_protected |-> error_protection,
                              fidelity |-> fidelity]
          logged == <<Event("INFO", "Quantum state encoded")>>
      IN  IF step.err # "none"
          THEN EncodeFailure(step.err, "encoding", NoVec, <<>>, F)
          ELSE IF fidelity.err # "none"
          THEN EncodeFailure(fidelity.err, "fidelity", encoded_state, <<>>, F)
          ELSE IF log_event_raises("Quantum state encoded", EncodedEventFields, F)
          THEN EncodeFailure("LoggingFailure", "log", encoded_state, logged, F)
          ELSE [status |-> "ok", raised_at |-> "nowhere",
                result |-> encoding_result, encoded |-> encoded_state,
                log |-> logged]

\* the record of a call on the encoder
EncCall(op, data, method, error_protection, record, status, raised_at, result, encoded, vector, log) ==
    [op |-> op,                 \* "encode", "decode", "round_trip"
     calls |-> enc_last.calls + 1,
     data |-> data,             \* encode's data, the round trip's vector
     method |-> method,
     error_protection |-> error_protection,
     record |-> record,         \* decode's argument
     status |-> status,         \* "ok" or the exception the caller sees
     raised_at |-> raised_at,   \* the step of encode that raised
     result |-> result,         \* encode's return value
     encoded |-> encoded,       \* the state vector encode had built, the
                                \* round trip's protected vector
     vector |-> vector,         \* the vector decode or the round trip returns
     log |-> log]

encode_quantum_state(data, method, error_protection, F) ==
    LET out == EncodeOutcome(data, method, error_protection, F)
    IN  /\ enc_last' = EncCall("encode", data, method, error_protection, NoResult,
                               out.status, out.raised_at, out.result,
                               out.encoded, NoVec, out.log)
        /\ UNCHANGED <<memory_states, now, last, stored_data, returned_ids,
                       decays, workload, logger_faulty, mit_last, enc_n_qubits,
                       later>>

\* the except branch of decode_quantum_state
DecodeFailure(e, log, F) ==
    [status |-> IF log_event_raises("Decoding failed", <<>>, F)
                THEN "LoggingFailure" ELSE e,
     vector |-> NoVec,
     log |-> Append(log, Event("ERROR", "Decoding failed"))]

DecodeOutcome(encoded_state, F) ==
    LET method == encoded_state.method
        state_vector ==
            IF encoded_state.error_protected
            THEN remove_error_protection(encoded_state.state_vector, method)
            ELSE encoded_state.state_vector
        \* no branch of the if/elif chain binds decoded_data for another method
        bound == method \in {"amplitude", "phase", "superdense"}
        decoded_data ==
            CASE method = "amplitude" -> amplitude_decode(state_vector)
              [] method = "phase" -> phase_decode(state_vector)
              [] method = "superdense" -> superdense_decode(state_vector)
              [] OTHER -> Returned(NoVec)
        logged == <<Event("INFO", "Quantum state decoded")>>
    IN  IF decoded_data.err # "none"
        THEN DecodeFailure(decoded_data.err, <<>>, F)
        ELSE IF log_event_raises("Quantum state decoded", DecodedEventFields, F)
        THEN DecodeFailure("LoggingFailure", logged, F)
        \* return decoded_data
        ELSE IF ~bound
        THEN DecodeFailure("UnboundLocalError", logged, F)
        ELSE [status |-> "ok", vector |-> decoded_data.vec, log |-> logged]

decode_quantum_state(encoded_state, F) ==
    LET out == DecodeOutcome(encoded_state, F)
    IN  /\ enc_last' = EncCall("decode", NoVec, encoded_state.method,
                               encoded_state.error_protected, encoded_state,
                               out.status, "nowhere", NoResult, NoVec,
                               out.vector, out.log)
        /\ UNCHANGED <<memory_states, now, last, stored_data, returned_ids,
                       decays, workload, logger_faulty, mit_last, enc_n_qubits,
                       later>>

\* _remove_error_protection called on what _apply_error_protection
\* returns for an encoded vector
protection_round_trip(state_vector, method) ==
    LET protected == apply_error_protection(state_vector, method)
        unprotected == remove_error_protection(protected, method)
    IN  /\ enc_last' = EncCall("round_trip", state_vector, method, TRUE, NoResult,
                               "ok", "nowhere", NoResult, protected,
                               unprotected, <<>>)
        /\ UNCHANGED <<memory_states, now, last, stored_data, returned_ids,
                       decays, workload, logger_faulty, mit_last, enc_n_qubits,
                       later>>

----------------------------------------------------------------------------
(* QuantumCircuitManager *)

\* n_qubits of a stand-alone manager is at most this
MaxCircuitQubits == 2
\* optimization_level arguments run from 0 to this
MaxLevel == 4

\* self.circuit_configs: the three profiles
circuit_configs ==
    [learning |-> [layers |-> 3, connectivity |-> "all-to-all",
                   error_threshold |-> Unit \div 1000],
     memory |-> [layers |-> 2, connectivity |-> "nearest-neighbor",
                 error_threshold |-> Unit \div 2000],
     processing |-> [layers |-> 4, connectivity |-> "custom",
                     error_threshold |-> Unit \div 500]]

\* d.get(k, default)
Get(d, k, default) == IF k \in DOMAIN d THEN d[k] ELSE default

\* a value that is not a dict: it has no get method
NotADict == [not_a_dict |-> TRUE]

\* the empty dict of circuit.get("config", {})
EmptyDict == [empty_dict |-> TRUE]

\* no specification, report or result is returned
NoSpec == [type |-> "none"]

\* the kinds of the values of a circuit dict, as json.dumps meets them: a
\* data array kept under "input_data" is a numpy array
CircuitFieldKinds(circuit) ==
    IF "input_data" \in DOMAIN circuit THEN <<"dict", "ndarray">> ELSE <<"dict">>

CreateMessages == {"Learning circuit created", "Circuit creation failed"}

\* the except branch ending in "return None" in place of "raise"
CircuitFailureSwallowing(e, failed_msg, log, input, F) ==
    [status |-> "ok",
     result |-> NoSpec,
     input_after |-> input,
     log |-> log \o <<Event("ERROR", failed_msg)>>]

\* the except branch of the three operations: one ERROR event, then the
\* exception is raised again (or the one log_event raises in its place)
CircuitFailure(e, failed_msg, log, input, F) ==
    [status |-> IF log_event_raises(failed_msg, <<>>, F) THEN "LoggingFailure" ELSE e,
     result |-> NoSpec,
     input_after |-> input,
     log |-> log \o <<Event("ERROR", failed_msg)>>]

\* create_learning_circuit: the specification, one INFO event
CreateOutcome(input_data, optimization_level, F) ==
    IF input_data.kind # "ndarray"
    THEN CircuitFailure("AttributeError", "Circuit creation failed", <<>>, input_data, F)
    ELSE LET circuit_spec ==
                 [timestamp |-> get_current_timestamp,
                  type |-> "learning",
                  n_qubits |-> qcm_n_qubits,
                  input_shape |-> input_data.shape,
                  config |-> circuit_configs["learning"],
                  optimization |-> [level |-> optimization_level,
                                    method |-> "quantum_enhanced"]]
             events == <<Event("INFO", "Learning circuit created")>>
         IN  IF log_event_raises("Learning circuit created", <<"dict">>, F)
             THEN CircuitFailure("LoggingFailure", "Circuit creation failed", events,
                                 input_data, F)
             ELSE [status |-> "ok", result |-> circuit_spec,
                   input_after |-> input_data, log |-> events]

OptimizeMessages == {"Circuit optimization completed", "Circuit optimization failed"}

\* optimize_circuit writing its record into the circuit it was given:
\* circuit["optimization_steps"] = [..]; return circuit
OptimizeOutcomeInPlace(circuit, target_fidelity, F) ==
    LET optimized ==
            [target_fidelity |-> target_fidelity,
             optimization_steps |->
                 <<[step |-> "gate_reduction",
                    before |-> Get(circuit, "n_gates", 0),
                    after |-> None]>>] @@ circuit
        events == <<Event("INFO", "Circuit optimization completed")>>
    IN  IF ~JsonSerializable(CircuitFieldKinds(circuit))
        THEN CircuitFailure("TypeError", "Circuit optimization failed", events,
                            optimized, F)
        ELSE [status |-> "ok", result |-> optimized,
              input_after |-> optimized, log |-> events]

\* optimize_circuit: the optimization record with its one step, one INFO
\* event whose fields hold the circuit itself
OptimizeOutcome(circuit, target_fidelity, F) ==
    LET optimization_spec ==
            [timestamp |-> get_current_timestamp,
             original_circuit |-> circuit,
             target_fidelity |-> target_fidelity,
             optimization_steps |->
                 <<[step |-> "gate_reduction",
                    before |-> Get(circuit, "n_gates", 0),
                    after |-> None]>>]
        events == <<Event("INFO", "Circuit optimization completed")>>
    IN  IF ~JsonSerializable(CircuitFieldKinds(circuit))
        THEN CircuitFailure("TypeError", "Circuit optimization failed", events, circuit, F)
        ELSE IF log_event_raises("Circuit optimization completed", <<>>, F)
        THEN CircuitFailure("LoggingFailure", "Circuit optimization failed", events,
                            circuit, F)
        ELSE [status |-> "ok", result |-> optimization_spec,
              input_after |-> circuit, log |-> events]

\* _validate_qubit_count
validate_qubit_count(circuit) == Get(circuit, "n_qubits", 0) = qcm_n_qubits

\* _validate_connectivity; None (no such key) is not in the list
validate_connectivity(circuit) ==
    Get(Get(circuit, "config", EmptyDict), "connectivity", "None")
        \in {"all-to-all", "nearest-neighbor", "custom"}

\* _validate_error_rates: the threshold is read and not used
validate_error_rates(circuit) == TRUE

ValidateMessages == {"Circuit validation completed", "Circuit validation failed"}

\* validate_circuit: the three checks and their conjunction, one INFO
\* event; a config that is not a dict has no get (AttributeError)
ValidateOutcome(circuit, F) ==
    IF Get(circuit, "config", EmptyDict) = NotADict
    THEN CircuitFailure("AttributeError", "Circuit validation failed", <<>>, circuit, F)
    ELSE LET checks == [qubit_count |-> validate_qubit_count(circuit),
                        connectivity |-> validate_connectivity(circuit),
                        error_rates |-> validate_error_rates(circuit)]
             validation_results ==
                 [type |-> "validation",
                  timestamp |-> get_current_timestamp,
                  checks |-> checks,
                  valid |-> \A c \in DOMAIN checks : checks[c]]
             events == <<Event("INFO", "Circuit validation completed")>>
         IN  IF log_event_raises("Circuit validation completed", <<"dict">>, F)
             THEN CircuitFailure("LoggingFailure", "Circuit validation failed", events,
                                 circuit, F)
             ELSE [status |-> "ok", result |-> validation_results,
                   input_after |-> circuit, log |-> events]

\* one call on the circuit manager, as recorded
QcmCall(op, input, optimization_level, target_fidelity, out) ==
    [op |-> op,
     input |-> input,            \* the data or the circuit passed in
     input_after |-> out.input_after,  \* the same object once the call is over
     optimization_level |-> optimization_level,
     target_fidelity |-> target_fidelity,
     status |-> out.status,      \* "ok" or the exception raised
     result |-> out.result,
     log |-> out.log]

create_learning_circuit(input_data, optimization_level, F) ==
    /\ qcm_last' = QcmCall("create", input_data, optimization_level, 0,
                           CreateOutcome(input_data, optimization_level, F))
    /\ UNCHANGED <<memory_states, now, last, stored_data, returned_ids, decays,
                   workload, logger_faulty, mit_last, enc_n_qubits, enc_last,
                   qcm_n_qubits, knowledge_nodes, kn_last, threads>>

optimize_circuit(circuit, target_fidelity, F) ==
    /\ qcm_last' = QcmCall("optimize", circuit, 0, target_fidelity,
                           OptimizeOutcome(circuit, target_fidelity, F))
    /\ UNCHANGED <<memory_states, now, last, stored_data, returned_ids, decays,
                   workload, logger_faulty, mit_last, enc_n_qubits, enc_last,
                   qcm_n_qubits, knowledge_nodes, kn_last, threads>>

validate_circuit(circuit, F) ==
    /\ qcm_last' = QcmCall("validate", circuit, 0, 0, ValidateOutcome(circuit, F))
    /\ UNCHANGED <<memory_states, now, last, stored_data, returned_ids, decays,
                   workload, logger_faulty, mit_last, enc_n_qubits, enc_last,
                   qcm_n_qubits, knowledge_nodes, kn_last, threads>>

----------------------------------------------------------------------------
(* KnowledgeRepresentationSystem *)

\* most nodes the dict holds before create_knowledge_node is held back
MaxNodes == 3

knowledge_types == {"concept", "fact", "rule", "procedure", "relationship"}

\* the categories LoggingManager has a logger for
log_categories == {"system", "quantum", "security", "performance", "audit"}

\* metadata or {}: the dict has at most the key merged_from, an empty list
\* standing for its absence
NoMetadata == [merged_from |-> <<>>]

\* relations or set(): None, an empty list and an empty set all give set()
Relations(relations) ==
    IF relations.items = {} THEN [kind |-> "set", items |-> {}] ELSE relations

\* KnowledgeNode(...)
KnowledgeNode(id, type, content, relations, confidence, timestamp, metadata) ==
    [id |-> id, type |-> type, content |-> content, relations |-> relations,
     confidence |-> confidence, timestamp |-> timestamp, metadata |-> metadata]

NoNodeId == InvalidStateId

generate_node_id(nodes) == <<get_current_timestamp, Cardinality(DOMAIN nodes)>>

\* del d[k]
DictDel(d, k) == [x \in DOMAIN d \ {k} |-> d[x]]

\* log_event("cognitive", level, message, **fields) raises: ValueError when
\* the logger has no "cognitive" category (the LoggingManager of the
\* repository, runs with logger_faulty), else TypeError when json.dumps
\* meets a set among the fields
CognitiveLogRaises(field_kinds) ==
    IF logger_faulty /\ "cognitive" \notin log_categories THEN "ValueError"
    ELSE IF "set" \in field_kinds THEN "TypeError"
    ELSE "none"

\* The except branch: log_event("cognitive", "ERROR", message) and raise.
\* The message is the only field; when the logger raises, its exception
\* is the one the caller sees.
KnowledgeFailure(e, failed_msg, log, nodes) ==
    IF CognitiveLogRaises({}) # "none"
    THEN [status |-> CognitiveLogRaises({}), returned |-> NoNodeId,
          nodes |-> nodes, log |-> log]
    ELSE [status |-> e, returned |-> NoNodeId, nodes |-> nodes,
          log |-> Append(log, Event("ERROR", failed_msg))]

\* The try body's last statements: log_event INFO with the given fields,
\* then return the ID
KnowledgeSuccess(id, msg, failed_msg, field_kinds, nodes) ==
    IF CognitiveLogRaises(field_kinds) # "none"
    THEN KnowledgeFailure(CognitiveLogRaises(field_kinds), failed_msg, <<>>, nodes)
    ELSE [status |-> "ok", returned |-> id, nodes |-> nodes,
          log |-> <<Event("INFO", msg)>>]

\* create_knowledge_node(type, content, relations, metadata=None), on the
\* dict nodes: the status, the ID returned, the dict afterwards, the log,
\* the ID generated
CreateNodeOutcome(nodes, type, content, relations) ==
    LET node_id == generate_node_id(nodes)
        node == KnowledgeNode(node_id, type, content, Relations(relations),
                              Unit, get_current_timestamp, NoMetadata)
        after == DictSet(nodes, node_id, node)
    IN  IF type \notin knowledge_types
        THEN [generated |-> NoNodeId] @@
             KnowledgeFailure("ValueError", "Knowledge node creation failed", <<>>, nodes)
        ELSE [generated |-> node_id] @@
             KnowledgeSuccess(node_id, "Knowledge node created",
                              "Knowledge node creation failed",
                              {node.relations.kind, node.content.kind}, after)

\* _merge_content
merge_content(source_content, target_content) ==
    IF source_content.kind = "dict" /\ target_content.kind = "dict"
    THEN [kind |-> "dict", value |-> source_content.value \cup target_content.value]
    ELSE IF source_content.kind = "list" /\ target_content.kind = "list"
    THEN [kind |-> "list", value |-> source_content.value \cup target_content.value]
    ELSE target_content

\* merge_knowledge_nodes(source_id, target_id), statement by statement
MergeOutcome(nodes, source_id, target_id) ==
    LET failed == "Knowledge merge failed"
        source == nodes[source_id]
        target == nodes[target_id]
        merged_id == generate_node_id(nodes)
        merged_node ==
            KnowledgeNode(merged_id, target.type,
                          merge_content(source.content, target.content),
                          [kind |-> "set",
                           items |-> source.relations.items \cup target.relations.items],
                          Min(source.confidence, target.confidence),
                          get_current_timestamp,
                          [merged_from |-> <<source_id, target_id>>])
        stored == DictSet(nodes, merged_id, merged_node)
        without_source == DictDel(stored, source_id)
        without_both == DictDel(without_source, target_id)
    IN  IF source_id \notin DOMAIN nodes
        THEN [generated |-> NoNodeId] @@ KnowledgeFailure("KeyError", failed, <<>>, nodes)
        ELSE IF target_id \notin DOMAIN nodes
        THEN [generated |-> NoNodeId] @@ KnowledgeFailure("KeyError", failed, <<>>, nodes)
        ELSE IF source.relations.kind # "set"
        THEN \* a list has no union
             [generated |-> merged_id] @@
             KnowledgeFailure("AttributeError", failed, <<>>, nodes)
        ELSE IF source_id \notin DOMAIN stored
        THEN \* unreachable: storing never removes a key
             [generated |-> merged_id] @@ KnowledgeFailure("KeyError", failed, <<>>, stored)
        ELSE IF target_id \notin DOMAIN without_source
        THEN \* del of a key the first del has removed
             [generated |-> merged_id] @@
             KnowledgeFailure("KeyError", failed, <<>>, without_source)
        ELSE [generated |-> merged_id] @@
             KnowledgeSuccess(merged_id, "Knowledge nodes merged", failed,
                              {"str"}, without_both)

\* the record of a call on the knowledge system
KnowledgeCall(op, args, out) ==
    [op |-> op, args |-> args, before |-> knowledge_nodes,
     status |-> out.status, returned |-> out.returned,
     generated |-> out.generated, log |-> out.log]

KnowledgeFrame ==
    UNCHANGED <<now, memory_states, last, stored_data, returned_ids, decays,
                workload, logger_faulty, mit_last, enc_n_qubits, enc_last,
                qcm_n_qubits, qcm_last, threads>>

create_knowledge_node(type, content, relations) ==
    LET out == CreateNodeOutcome(knowledge_nodes, type, content, relations)
    IN  /\ Cardinality(DOMAIN knowledge_nodes) < MaxNodes
        /\ knowledge_nodes' = out.nodes
        /\ kn_last' = KnowledgeCall("create", <<type>>, out)
        /\ KnowledgeFrame

merge_knowledge_nodes(source_id, target_id) ==
    LET out == MergeOutcome(knowledge_nodes, source_id, target_id)
    IN  /\ knowledge_nodes' = out.nodes
        /\ kn_last' = KnowledgeCall("merge", <<source_id, target_id>>, out)
        /\ KnowledgeFrame

----------------------------------------------------------------------------
(* One QuantumMemoryInterface shared by concurrent callers *)

\* the callers (threads); each makes one call
MaxThreads == 3

Threads == 1..MaxThreads

\* The frame of a thread: the operation it runs, where it stands in it
\* and its local variables.  store_state: "generate" (before
\* _generate_state_id), "assign" (before self.memory_states[state_id] =
\* memory_state), "return" (before the log_event and the return).
\* monitor_state_fidelity: "iterate" (the for loop, one item per step).
Frame(op, pc, data, state_id, memory_state, size, pos, fidelities, status) ==
    [op |-> op,                 \* "none", "store", "monitor"
     pc |-> pc,                 \* "idle", the position, "done"
     data |-> data,             \* store's argument
     state_id |-> state_id,     \* store's local, the ID it returns
     memory_state |-> memory_state,  \* store's local
     size |-> size,             \* the dict's size when the iterator was made
     pos |-> pos,               \* items the iterator has yielded
     fidelities |-> fidelities, \* monitor's local, the dict it returns
     status |-> status]         \* "running", "ok" or the exception raised

NoMemoryState == [id |-> InvalidStateId]

Idle == Frame("none", "idle", <<>>, InvalidStateId, NoMemoryState, 0, 0,
              NoFidelities, "running")

\* everything but the shared dict and the frames
ConcurrentFrame ==
    UNCHANGED <<now, last, stored_data, returned_ids, decays, workload,
                logger_faulty, mit_last, enc_n_qubits, enc_last, qcm_n_qubits,
                qcm_last, knowledge_nodes, kn_last>>

\* thread t calls store_state(data) with the default scheme and metadata
call_store(t, data) ==
    /\ threads[t].pc = "idle"
    /\ threads' = [threads EXCEPT ![t] = [Idle EXCEPT !.op = "store",
                                                     !.pc = "generate",
                                                     !.data = data]]
    /\ UNCHANGED memory_states
    /\ ConcurrentFrame

\* state_id = self._generate_state_id(), the encoding, the allocation and
\* the MemoryState, all on the dict as it is now
store_generate(t) ==
    LET state_id == generate_state_id(memory_states)
        memory_state == [id |-> state_id,
                         qubits |-> allocate_qubits(Encode(DefaultScheme, threads[t].data)),
                         encoding |-> DefaultScheme,
                         fidelity |-> InitialFidelity,
                         timestamp |-> get_current_timestamp,
                         metadata |-> DefaultMetadata]
    IN  /\ threads[t].op = "store" /\ threads[t].pc = "generate"
        /\ threads' = [threads EXCEPT ![t].pc = "assign",
                                      ![t].state_id = state_id,
                                      ![t].memory_state = memory_state]
        /\ UNCHANGED memory_states
        /\ ConcurrentFrame

\* self.memory_states[state_id] = memory_state
store_assign(t) ==
    /\ threads[t].op = "store" /\ threads[t].pc = "assign"
    /\ memory_states' = DictSet(memory_states, threads[t].state_id,
                                threads[t].memory_state)
    /\ threads' = [threads EXCEPT ![t].pc = "return"]
    /\ ConcurrentFrame

\* the INFO event and return state_id
store_return(t) ==
    /\ threads[t].op = "store" /\ threads[t].pc = "return"
    /\ threads' = [threads EXCEPT ![t].pc = "done", ![t].status = "ok"]
    /\ UNCHANGED memory_states
    /\ ConcurrentFrame

\* thread t calls monitor_state_fidelity(): fidelities = {} and the
\* iterator of self.memory_states.items()
call_monitor(t) ==
    /\ threads[t].pc = "idle"
    /\ threads' = [threads EXCEPT ![t] =
                      [Idle EXCEPT !.op = "monitor", !.pc = "iterate",
                                   !.size = Cardinality(DOMAIN memory_states)]]
    /\ UNCHANGED memory_states
    /\ ConcurrentFrame

\* One step of the for loop.  The dict iterator first compares the dict's
\* size with the size it started from and raises RuntimeError ("dictionary
\* changed size during iteration") when they differ; the except branch logs
\* and re-raises.  Otherwise it yields the next item, whose fidelity the
\* body decays, or ends the loop and the fidelities are returned.
monitor_next(t) ==
    LET frame == threads[t]
        keys == KeysInOrder(DOMAIN memory_states)
    IN  /\ frame.op = "monitor" /\ frame.pc = "iterate"
        /\ IF Cardinality(DOMAIN memory_states) # frame.size
           THEN /\ threads' = [threads EXCEPT ![t].pc = "done",
                                             ![t].status = "RuntimeError",
                                             ![t].fidelities = NoFidelities]
                /\ UNCHANGED memory_states
           ELSE IF frame.pos >= Len(keys)
           THEN /\ threads' = [threads EXCEPT ![t].pc = "done", ![t].status = "ok"]
                /\ UNCHANGED memory_states
           ELSE LET state_id == keys[frame.pos + 1]
                    state == memory_states[state_id]
                    time_stored == calculate_storage_time(state.timestamp)
                    fidelity == DecayedFidelity(state.fidelity, time_stored)
                IN  /\ memory_states' = [memory_states EXCEPT ![state_id].fidelity = fidelity]
                    /\ threads' = [threads EXCEPT
                          ![t].pos = frame.pos + 1,
                          ![t].fidelities = DictSet(frame.fidelities, state_id, fidelity)]
        /\ ConcurrentFrame

----------------------------------------------------------------------------
(* The clock *)

\* a second passes
Tick ==
    /\ now < MaxTime
    /\ now' = now + 1
    /\ UNCHANGED <<memory_states, last, stored_data, returned_ids, decays,
                   workload, logger_faulty, others>>

----------------------------------------------------------------------------
(* Specifications *)

\* __init__: an empty dict, one INFO event
ConstructedMemory ==
    /\ memory_states = <<>>
    /\ now = 0
    /\ last = Call("init", InvalidStateId, <<>>, "none", "ok", NoVector,
                   NoFidelities,
                   <<Event("INFO", "Quantum memory interface initialized")>>,
                   FALSE, <<>>, FALSE)
    /\ stored_data = <<>>
    /\ returned_ids = <<>>
    /\ decays = <<>>

\* the interface as constructed, for a caller of one of the four profiles
Constructed == ConstructedMemory /\ workload \in Workloads

Store == \E data \in DataInputs, encoding_scheme \in SchemeInputs,
            metadata \in MetadataInputs, F \in FailChoices(StoreMessages) :
            store_state(data, encoding_scheme, metadata, F)

Retrieve == \E state_id \in IdInputs, F \in FailChoices(RetrieveMessages) :
               retrieve_state(state_id, F)

Monitor == \E W \in WarningFailChoices : monitor_state_fidelity(W)

Next == Store \/ Retrieve \/ Monitor \/ Tick

\* no circuit manager, knowledge system or concurrent caller exists
Unbuilt ==
    /\ qcm_n_qubits = 0
    /\ qcm_last = NoCall
    /\ knowledge_nodes = <<>>
    /\ kn_last = NoCall
    /\ threads = <<>>

\* no call has been made on a stand-alone mitigation system or encoder
Untouched == mit_last = NoCall /\ enc_n_qubits = 0 /\ enc_last = NoCall /\ Unbuilt

\* the logging service fails only on what json.dumps cannot write
Init == Constructed /\ logger_faulty = FALSE /\ Untouched

Spec == Init /\ [][Next]_vars

\* the logging service may fail: any log_event call may raise
InitLog == Constructed /\ logger_faulty = TRUE /\ Untouched

SpecLog == InitLog /\ [][Next]_vars

\* An ErrorMitigationSystem on its own: callers apply strategies to it; the
\* memory interface of the same circuit manager stays as constructed
Mitigate == \E strategies \in StrategyInputs, F \in FailChoices(MitigationMessages) :
               apply_mitigation(strategies, F)

\* the divisor of the data entries: they are tenths
DataDen2 == 10^2

\* self.test_data = np.array([0.1, 0.2, 0.3, 0.4])
TestData == Vec(<<Real(1), Real(2), Real(3), Real(4)>>, DataDen2)

\* the data vectors given to the encoder: every vector of 1..MaxDataLen
\* entries out of 0, 0.1, .., MaxVal/10 (the all-zero ones among them),
\* and the vector of the tests
EncoderDataInputs ==
    {Vec([i \in 1..Len(q) |-> Real(q[i])], DataDen2) :
        q \in SeqsUpTo(0..MaxVal, MaxDataLen) \ {<<>>}} \cup {TestData}

MethodInputs == EncodingMethods \cup {"unknown_method"}

\* the state vector encode_quantum_state builds, or the exception of the
\* encoding step
EncodedVector(data, method, error_protection) ==
    LET step == EncodeStep(method, normalize_data(data))
    IN  IF step.err # "none" \/ ~error_protection THEN step
        ELSE Returned(apply_error_protection(step.vec, method))

\* a record shaped like encode_quantum_state's result, as a caller hands it
\* to decode_quantum_state
RecordOf(vec, method, error_protection) ==
    [method |-> method, state_vector |-> vec, n_qubits_used |-> Len(vec.v),
     error_protected |-> error_protection,
     fidelity |-> [NoFidelity EXCEPT !.num = 1]]

\* the records given to decode_quantum_state: one per state vector the
\* encoder builds, and the amplitude ones again under a method name the
\* encoder does not know
RecordInputs ==
    LET built == {<<d, m, p>> \in EncoderDataInputs \X EncodingMethods \X BOOLEAN :
                     EncodedVector(d, m, p).err = "none"}
    IN  {RecordOf(EncodedVector(b[1], b[2], b[3]).vec, b[2], b[3]) : b \in built}
        \cup {RecordOf(EncodedVector(b[1], b[2], b[3]).vec, "unknown_method", b[3]) :
                 b \in {c \in built : c[2] = "amplitude"}}

\* the encoded vectors, each with its method, given to _apply_error_protection
ProtectInputs ==
    {<<EncodedVector(d, m, FALSE).vec, m>> :
        <<d, m>> \in {c \in EncoderDataInputs \X EncodingMethods :
                         EncodedVector(c[1], c[2], FALSE).err = "none"}}

\* the encoder may still be called in this run
EncoderCallable == enc_last.calls < MaxEncoderCalls

EncodeOp ==
    /\ EncoderCallable
    /\ \E data \in EncoderDataInputs, method \in MethodInputs,
          error_protection \in BOOLEAN, F \in FailChoices(EncodeMessages) :
          encode_quantum_state(data, method, error_protection, F)

DecodeOp ==
    /\ EncoderCallable
    /\ \E encoded_state \in RecordInputs, F \in FailChoices(DecodeMessages) :
          decode_quantum_state(encoded_state, F)

ProtectionRoundTrip ==
    /\ EncoderCallable
    /\ \E input \in ProtectInputs : protection_round_trip(input[1], input[2])

NextEncoder == EncodeOp \/ DecodeOp \/ ProtectionRoundTrip

\* QuantumEncoder(n_qubits): the memory interface stays as constructed
InitEncoder ==
    /\ Constructed
    /\ workload = "sizes"
    /\ logger_faulty = FALSE
    /\ mit_last = NoCall
    /\ enc_n_qubits \in 1..MaxQubits
    /\ enc_last = NoCall
    /\ Unbuilt

SpecEncoder == InitEncoder /\ [][NextEncoder]_vars

\* self.test_data = np.random.rand(10, 10), a one-dimensional array, and a
\* Python list (which has no shape attribute)
ArrayInputs == {[kind |-> "ndarray", shape |-> <<10, 10>>],
                [kind |-> "ndarray", shape |-> <<4>>],
                [kind |-> "list"]}

LevelInputs == 0..MaxLevel

\* target_fidelity: float = 0.99
DefaultTargetFidelity == (99 * Unit) \div 100

TargetFidelityInputs == {DefaultTargetFidelity, (9 * Unit) \div 10}

\* d without the key k
Without(d, k) == [x \in DOMAIN d \ {k} |-> d[x]]

\* what create_learning_circuit(self.test_data) returns now
LearningCircuit == CreateOutcome([kind |-> "ndarray", shape |-> <<10, 10>>], 2, {}).result

\* the circuits handed to optimize_circuit and validate_circuit: the
\* manager's own specification, and that specification with another qubit
\* count, without one, under the other profiles, with an unsupported
\* connectivity, without a config, with the profile's name in place of the
\* profile, with a gate count, and with the data array attached
CircuitInputs ==
    LET c == LearningCircuit
    IN  {c,
         [c EXCEPT !.n_qubits = qcm_n_qubits + 1],
         Without(c, "n_qubits"),
         [c EXCEPT !.config = circuit_configs["memory"]],
         [c EXCEPT !.config = circuit_configs["processing"]],
         [c EXCEPT !.config.connectivity = "ring"],
         Without(c, "config"),
         [c EXCEPT !.config = NotADict],
         [n_gates |-> 5] @@ c,
         [input_data |-> "ndarray"] @@ c}

CreateOp == \E input_data \in ArrayInputs, optimization_level \in LevelInputs,
               F \in FailChoices(CreateMessages) :
               create_learning_circuit(input_data, optimization_level, F)

OptimizeOp == \E circuit \in CircuitInputs, target_fidelity \in TargetFidelityInputs,
                 F \in FailChoices(OptimizeMessages) :
                 optimize_circuit(circuit, target_fidelity, F)

ValidateOp == \E circuit \in CircuitInputs, F \in FailChoices(ValidateMessages) :
                 validate_circuit(circuit, F)

NextCircuit == CreateOp \/ OptimizeOp \/ ValidateOp \/ Tick

\* QuantumCircuitManager(n_qubits): the other components stay as constructed
InitCircuit ==
    /\ Constructed
    /\ workload = "sizes"
    /\ logger_faulty = FALSE
    /\ mit_last = NoCall /\ enc_n_qubits = 0 /\ enc_last = NoCall
    /\ qcm_n_qubits \in 0..MaxCircuitQubits
    /\ qcm_last = NoCall
    /\ knowledge_nodes = <<>>
    /\ kn_last = NoCall
    /\ threads = <<>>

SpecCircuit == InitCircuit /\ [][NextCircuit]_vars

\* callers also ask the mitigation system to analyze circuits
Analyze == \E circuit \in CircuitInputs, F \in FailChoices(AnalysisMessages) :
              analyze_error_rates(circuit, F)

NextMitigation == Mitigate \/ Analyze

InitMitigation ==
    /\ Constructed
    /\ workload = "sizes"
    /\ logger_faulty = FALSE
    /\ Untouched

SpecMitigation == InitMitigation /\ [][NextMitigation]_vars

\* The four components of the core, one caller driving one of them per run.
\* n_qubits of the encoder in such a run is at most this
CoreQubits == 2

\* what the caller of a run drives when it is not the memory interface
Components == {"circuit", "encoder", "mitigation"}

\* the data given to the encoder in such a run: the vector of the tests,
\* a zero vector and a vector of one entry
CoreDataInputs == {TestData, Vec(<<Real(0), Real(0)>>, DataDen2),
                   Vec(<<Real(1)>>, DataDen2)}

\* the records given to decode_quantum_state in such a run
CoreRecordInputs ==
    LET built == {<<d, m, p>> \in CoreDataInputs \X EncodingMethods \X BOOLEAN :
                     EncodedVector(d, m, p).err = "none"}
    IN  {RecordOf(EncodedVector(b[1], b[2], b[3]).vec, b[2], b[3]) : b \in built}
        \cup {RecordOf(EncodedVector(b[1], b[2], b[3]).vec, "unknown_method", b[3]) :
                 b \in {c \in built : c[2] = "amplitude"}}

CoreEncode ==
    /\ workload = "encoder"
    /\ EncoderCallable
    /\ \E data \in CoreDataInputs, method \in MethodInputs,
          error_protection \in BOOLEAN, F \in FailChoices(EncodeMessages) :
          encode_quantum_state(data, method, error_protection, F)

CoreDecode ==
    /\ workload = "encoder"
    /\ EncoderCallable
    /\ \E encoded_state \in CoreRecordInputs, F \in FailChoices(DecodeMessages) :
          decode_quantum_state(encoded_state, F)

CoreMemory == workload \in Workloads /\ (Store \/ Retrieve \/ Monitor)

CoreMitigation == workload = "mitigation" /\ (Mitigate \/ Analyze)

CoreCircuit == workload = "circuit" /\ (CreateOp \/ OptimizeOp \/ ValidateOp)

NextCore == CoreMemory \/ CoreMitigation \/ CoreCircuit \/ CoreEncode \/ CoreDecode \/ Tick

\* the components as constructed; the logging service may fail in the runs
\* on the mitigation system and in the runs that age the stored states,
\* whose operations cannot fail otherwise
InitCore ==
    /\ ConstructedMemory
    /\ mit_last = NoCall
    /\ enc_last = NoCall
    /\ qcm_last = NoCall
    /\ knowledge_nodes = <<>>
    /\ kn_last = NoCall
    /\ threads = <<>>
    /\ \/ /\ workload \in Workloads
          /\ logger_faulty \in (IF workload = "aged" THEN BOOLEAN ELSE {FALSE})
          /\ enc_n_qubits = 0
          /\ qcm_n_qubits = 0
       \/ /\ workload = "mitigation"
          /\ logger_faulty \in BOOLEAN
          /\ enc_n_qubits = 0
          /\ qcm_n_qubits = 0
       \/ /\ workload = "circuit"
          /\ logger_faulty = FALSE
          /\ enc_n_qubits = 0
          /\ qcm_n_qubits \in 0..MaxCircuitQubits
       \/ /\ workload = "encoder"
          /\ logger_faulty = FALSE
          /\ enc_n_qubits \in 1..CoreQubits
          /\ qcm_n_qubits = 0

SpecCore == InitCore /\ [][NextCore]_vars

\* Callers sharing one interface, their calls overlapping within one
\* reading of the clock; thread t stores a vector of its own
CallStore == \E t \in Threads : call_store(t, DataOf(1 + (t % NQubits)))

CallMonitor == \E t \in Threads : call_monitor(t)

StoreGenerate == \E t \in Threads : store_generate(t)

StoreAssign == \E t \in Threads : store_assign(t)

StoreReturn == \E t \in Threads : store_return(t)

MonitorNext == \E t \in Threads : monitor_next(t)

NextConcurrent ==
    CallStore \/ StoreGenerate \/ StoreAssign \/ StoreReturn \/ CallMonitor \/ MonitorNext

InitConcurrent ==
    /\ ConstructedMemory
    /\ workload = "sizes"
    /\ logger_faulty = FALSE
    /\ mit_last = NoCall /\ enc_n_qubits = 0 /\ enc_last = NoCall
    /\ qcm_n_qubits = 0 /\ qcm_last = NoCall
    /\ knowledge_nodes = <<>> /\ kn_last = NoCall
    /\ threads = [t \in Threads |-> Idle]

SpecConcurrent == InitConcurrent /\ [][NextConcurrent]_vars

\* One KnowledgeRepresentationSystem, the clock held at one reading
TypeInputs == {"concept", "fact", "emotion"}

\* the content given with a type: a string for a concept, a dict otherwise
ContentOf(type) ==
    IF type = "concept" THEN [kind |-> "str", value |-> {"c"}]
    ELSE [kind |-> "dict", value |-> {type}]

\* relations: None, a list
RelationInputs == {[kind |-> "none", items |-> {}], [kind |-> "list", items |-> {"r"}]}

NodeIdInputs == DOMAIN knowledge_nodes \cup {NoNodeId}

CreateNode ==
    \E type \in TypeInputs, relations \in RelationInputs :
        create_knowledge_node(type, ContentOf(type), relations)

MergeNodes ==
    \E source_id \in NodeIdInputs, target_id \in NodeIdInputs :
        merge_knowledge_nodes(source_id, target_id)

NextKnowledge == CreateNode \/ MergeNodes

\* __init__: knowledge_nodes = {}.  The constructor's own log_event
\* returns only with a logger that knows the category; with the
\* repository's LoggingManager (logger_faulty) it raises, and the object is
\* the one a caller gets who supplies the fields without that call.
InitKnowledge ==
    /\ ConstructedMemory
    /\ workload = "knowledge"
    /\ logger_faulty \in BOOLEAN
    /\ mit_last = NoCall /\ enc_n_qubits = 0 /\ enc_last = NoCall
    /\ qcm_n_qubits = 0 /\ qcm_last = NoCall
    /\ knowledge_nodes = <<>> /\ kn_last = NoCall
    /\ threads = <<>>

SpecKnowledge == InitKnowledge /\ [][NextKnowledge]_vars

----------------------------------------------------------------------------
(* Claims *)

\* the IDs store_state has returned so far
ReturnedIdSet == {returned_ids[i] : i \in 1..Len(returned_ids)}

\* C1: every ID a successful store_state returns differs from every ID the
\* instance returned before, also when data and timestamp are the same, so
\* memory_states holds exactly one entry per successful store: each
\* returned ID is the key of an entry of its own.
C1_StateIdsUnique ==
    /\ \A i, j \in 1..Len(returned_ids) :
          i # j => returned_ids[i] # returned_ids[j]
    /\ Cardinality(ReturnedIdSet) = Len(returned_ids)
    /\ \A id \in ReturnedIdSet :
          id \in DOMAIN memory_states /\ memory_states[id].id = id

\* two successful stores of the same data within the same second
C1_Witness ==
    /\ Len(returned_ids) >= 2
    /\ stored_data[returned_ids[1]] = stored_data[returned_ids[2]]
    /\ memory_states[returned_ids[1]].timestamp
          = memory_states[returned_ids[2]].timestamp

\* C2: store_state signals CapacityExceeded, persisting nothing, whenever
\* the encoded output is longer than the qubit capacity N; it never returns
\* an ID then.
C2_CapacityExceededSignalled ==
    (/\ last.op = "store"
     /\ last.scheme \in encoding_schemes
     /\ Len(Encode(last.scheme, last.data)) > NQubits)
        => /\ last.status = "CapacityExceeded"
           /\ memory_states = last.pre
           /\ last.state_id \notin ReturnedIdSet

\* C3: retrieve_state returns a vector as long as the data vector given to
\* the store_state call that created the state, for every data length.
C3_RetrievedLengthIsDataLength ==
    (last.op = "retrieve" /\ last.status = "ok")
        => Len(last.vector) = Len(stored_data[last.state_id])

\* C4: retrieve_state returns the data vector that was stored, whatever the
\* scheme: retrieval decodes with a true inverse, not to a zero vector.
C4_RetrieveReturnsStoredData ==
    (last.op = "retrieve" /\ last.status = "ok")
        => last.vector = stored_data[last.state_id]

\* C5: retrieve_state of an ID that is no key of memory_states signals
\* KeyError, returns no vector and leaves memory_states as it was.
C5_RetrieveUnknownIsKeyError ==
    (last.op = "retrieve" /\ last.state_id \notin DOMAIN last.pre)
        => /\ last.status = "KeyError"
           /\ last.vector = NoVector
           /\ memory_states = last.pre

\* an unknown ID was asked for while states were stored
C5_Witness ==
    /\ last.op = "retrieve"
    /\ last.state_id \notin DOMAIN last.pre
    /\ Cardinality(DOMAIN memory_states) >= 2

\* C6: every monitor_state_fidelity call strictly decreases the fidelity of
\* every state stored before it, to old * exp(-0.1 * dt) with dt > 0, and
\* returns the new values; a state that has been through a monitor call has
\* a fidelity below 1.0.
C6_MonitorStrictlyDecreases ==
    /\ last.op = "monitor" =>
          /\ DOMAIN last.fidelities = DOMAIN last.pre
          /\ \A id \in DOMAIN last.pre :
                /\ memory_states[id].fidelity < last.pre[id].fidelity
                /\ SimulatedStorageTime > 0
                /\ memory_states[id].fidelity
                      = Mul(last.pre[id].fidelity,
                            ExpNeg(Mul(DecayRate, SimulatedStorageTime)))
                /\ last.fidelities[id] = memory_states[id].fidelity
    /\ \A id \in DOMAIN memory_states :
          decays[id] >= 1 => memory_states[id].fidelity < InitialFidelity

\* a monitor call over two states, one of them freshly stored
C6_Witness ==
    /\ last.op = "monitor"
    /\ Cardinality(DOMAIN last.pre) >= 2
    /\ \E id \in DOMAIN last.pre : last.pre[id].fidelity = InitialFidelity
    /\ \E id \in DOMAIN last.pre : last.pre[id].fidelity < InitialFidelity

\* C7: the decay a monitor call applies depends on the time elapsed since
\* the state was stored: of two states with equal fidelity stored at
\* different times, the older gets the smaller factor.
C7_DecayDependsOnElapsedTime ==
    last.op = "monitor" =>
        \A a, b \in DOMAIN last.pre :
            (/\ last.pre[a].timestamp < last.pre[b].timestamp
             /\ last.pre[a].fidelity = last.pre[b].fidelity)
                => memory_states[a].fidelity < memory_states[b].fidelity

\* C8: every stored state has a fidelity within [0, 1]; it is created with
\* exactly 1.0.
C8_FidelityInRange ==
    \A id \in DOMAIN memory_states :
        /\ 0 <= memory_states[id].fidelity
        /\ memory_states[id].fidelity <= Unit
        /\ decays[id] = 0 => memory_states[id].fidelity = Unit

\* a state decayed below the warning threshold beside a new one
C8_Witness ==
    /\ \E id \in DOMAIN memory_states : memory_states[id].fidelity < WarnThreshold
    /\ \E id \in DOMAIN memory_states : decays[id] = 0

\* C9: the qubits allocated to a stored state stay within the capacity N:
\* at most N of them, each an index below N.
C9_AllocationWithinCapacity ==
    \A id \in DOMAIN memory_states :
        LET qubits == memory_states[id].qubits
        IN  /\ Len(qubits) <= NQubits
            /\ \A i \in 1..Len(qubits) : qubits[i] \in 0..(NQubits - 1)

\* a state stored from data longer than the capacity
C9_Witness ==
    \E id \in DOMAIN memory_states : Len(stored_data[id]) > NQubits

\* C10: a log_event call that raises never reaches the caller and never
\* changes the outcome: store_state still returns the new ID with the state
\* persisted, retrieve_state and monitor_state_fidelity still return their
\* values, and monitor_state_fidelity has decayed every state once.
C10_LogFailureHarmless ==
    last.log_failed =>
        /\ last.status # "LoggingFailure"
        /\ (last.op = "store" /\ last.scheme \in encoding_schemes) =>
              /\ last.status = "ok"
              /\ last.state_id \in DOMAIN memory_states
              /\ last.state_id \in ReturnedIdSet
        /\ (last.op = "retrieve" /\ last.state_id \in DOMAIN last.pre) =>
              /\ last.status = "ok"
              /\ last.vector = decode_state(last.pre[last.state_id])
        /\ last.op = "monitor" =>
              /\ last.status = "ok"
              /\ \A id \in DOMAIN last.pre :
                    memory_states[id].fidelity
                        = DecayedFidelity(last.pre[id].fidelity,
                                          calculate_storage_time(last.pre[id].timestamp))

\* C11: the core never deletes or rewrites stored states: no call removes a
\* key of memory_states; a successful store_state adds exactly one key and
\* leaves every existing state as it was; retrieve_state changes no state,
\* and a low-fidelity warning does not stop it returning the vector;
\* monitor_state_fidelity changes nothing but the fidelity field.
C11_StoredStatesKept ==
    /\ DOMAIN last.pre \subseteq DOMAIN memory_states
    /\ (last.op = "store" /\ last.status = "ok") =>
          /\ Cardinality(DOMAIN memory_states) = Cardinality(DOMAIN last.pre) + 1
          /\ DOMAIN memory_states = DOMAIN last.pre \cup {last.state_id}
          /\ \A id \in DOMAIN last.pre : memory_states[id] = last.pre[id]
    /\ last.op = "retrieve" =>
          /\ memory_states = last.pre
          /\ (/\ last.state_id \in DOMAIN last.pre
              /\ last.pre[last.state_id].fidelity < WarnThreshold)
                => /\ last.status = "ok"
                   /\ Len(last.vector) = Len(last.pre[last.state_id].qubits)
                   /\ last.log[1] = Event("WARNING", "Low fidelity state retrieval")
    /\ last.op = "monitor" =>
          /\ DOMAIN memory_states = DOMAIN last.pre
          /\ \A id \in DOMAIN last.pre :
                [memory_states[id] EXCEPT !.fidelity = last.pre[id].fidelity]
                    = last.pre[id]

\* a state below the warning threshold, kept by the monitor call that took
\* it there, was retrieved with a warning
C11_Witness ==
    /\ last.op = "retrieve"
    /\ last.status = "ok"
    /\ last.state_id \in DOMAIN last.pre
    /\ last.pre[last.state_id].fidelity < WarnThreshold
    /\ Len(last.vector) = NQubits

\* C12: store_state with a scheme name that is none of direct, compressed,
\* error_protected signals ValueError, persists nothing and does not invoke
\* apply_error_mitigation.
C12_UnknownSchemeRejected ==
    (last.op = "store" /\ last.scheme \notin encoding_schemes)
        => /\ last.status = "ValueError"
           /\ memory_states = last.pre
           /\ ~last.mitigated
           /\ \A i \in 1..Len(last.log) :
                 last.log[i].msg # "Error mitigation applied"
           /\ last.state_id \notin ReturnedIdSet

\* an unknown scheme name was given while a state was already stored
C12_Witness ==
    /\ last.op = "store"
    /\ last.scheme \notin encoding_schemes
    /\ Cardinality(DOMAIN memory_states) >= 1

\* the strategies a call asked for, None standing for the three defaults
RequestedStrategies ==
    IF mit_last.strategies = None
    THEN <<"decoherence", "gate_error", "measurement">>
    ELSE mit_last.strategies

IsErrorModelName(name) == name \in {"decoherence", "gate_error", "measurement"}

\* C13: apply_error_mitigation returns in applied_strategies exactly the
\* requested names that are error models, in request order and with
\* multiplicity, each result tagged with its model; unknown names are
\* skipped without raising; with no strategies argument there are three
\* results, decoherence, gate_error, measurement; with ["decoherence"] one.
C13_AppliedStrategiesAreKnownRequested ==
    mit_last.op = "apply" =>
        LET known == SelectSeq(RequestedStrategies, IsErrorModelName)
            applied == mit_last.applied_strategies
        IN  /\ mit_last.status = "ok"
            /\ Len(applied) = Len(known)
            /\ \A i \in 1..Len(applied) : applied[i].model = known[i]
            /\ mit_last.strategies = None =>
                  /\ Len(applied) = 3
                  /\ applied[1].model = "decoherence"
                  /\ applied[2].model = "gate_error"
                  /\ applied[3].model = "measurement"
            /\ mit_last.strategies = <<"decoherence">> =>
                  /\ Len(applied) = 1
                  /\ applied[1].model = "decoherence"

\* a request naming one error model twice, out of the models' order, around
\* an unknown name and before another model
C13_Witness ==
    /\ mit_last.op = "apply"
    /\ mit_last.strategies = <<"measurement", "unknown_strategy", "measurement">>
    /\ Len(mit_last.applied_strategies) = 2

\* the last encoder call was encode_quantum_state with a known method
EncodedWith(method) == enc_last.op = "encode" /\ enc_last.method = method

\* the data of the last encode call is shorter than 2^Q
DataShorterThanSpace == Len(enc_last.data.v) < Pow2(enc_n_qubits)

\* the data of the last encode call has a non-zero norm
DataNonZero == SumSq(enc_last.data.v, 1) > 0

\* C14: unknown method names are never silently ignored: encode_quantum_state
\* with a method that is none of amplitude, phase, superdense signals
\* ValueError, and so does decode_quantum_state on a record with such a
\* method, without first recording a 'Quantum state decoded' event and
\* without returning a value.
C14_UnknownMethodSignalled ==
    /\ (enc_last.op = "encode" /\ enc_last.method \notin EncodingMethods)
          => /\ enc_last.status = "ValueError"
             /\ enc_last.result = NoResult
    /\ (enc_last.op = "decode" /\ enc_last.method \notin EncodingMethods)
          => /\ enc_last.status = "ValueError"
             /\ enc_last.vector = NoVec
             /\ \A i \in 1..Len(enc_last.log) :
                   enc_last.log[i].msg # "Quantum state decoded"

\* C15: for every qubit count Q and every non-zero data vector shorter than 2^Q,
\* encode_quantum_state with method amplitude or phase and the default
\* error_protection=True returns a state_vector of exactly 2^Q entries.
C15_ProtectedLengthIsSpaceSize ==
    (/\ enc_last.op = "encode"
     /\ enc_last.method \in {"amplitude", "phase"}
     /\ enc_last.error_protection
     /\ DataShorterThanSpace
     /\ DataNonZero)
        => /\ enc_last.status = "ok"
           /\ Len(enc_last.result.state_vector.v) = Pow2(enc_n_qubits)

\* C16: the error-protection expansion is reversible: for every method and
\* every encoded vector v (of numbers, no nan), removing the protection
\* applied to v yields the entries of v in their order and count, up to the
\* normalisation factor.
C16_ProtectionReversible ==
    (enc_last.op = "round_trip" /\ ~HasNaN(enc_last.data.v)) =>
        /\ Len(enc_last.vector.v) = Len(enc_last.data.v)
        /\ \A i \in 1..Len(enc_last.data.v) :
              enc_last.vector.v[i] = enc_last.data.v[i]

\* the value mag / sqrt(den2) of a real entry in thousandths, den2 a square
Milli(e, den2) == (1000 * e.mag) \div ISqrt(den2)

\* the first entries of the decoded vector are the data, to within 3/1000
\* (the angles are kept to a degree, 1/360 of a turn)
DecodedIsData(decoded, data) ==
    /\ Len(decoded.v) >= Len(data.v)
    /\ \A i \in 1..Len(data.v) :
          /\ ~decoded.v[i].nan
          /\ Milli(decoded.v[i], decoded.den2) - Milli(data.v[i], data.den2) \in -3..3

\* C17: phase round trip: for every data vector d shorter than 2^Q, the
\* first len(d) entries of decode_quantum_state(encode_quantum_state(d,
\* method='phase')) equal d elementwise and in order.
C17_PhaseRoundTrip ==
    (EncodedWith("phase") /\ enc_last.error_protection /\ DataShorterThanSpace
        /\ DataNonZero)
        => /\ enc_last.status = "ok"
           /\ LET decoded == DecodeOutcome(enc_last.result, {})
              IN  /\ decoded.status = "ok"
                  /\ DecodedIsData(decoded.vector, enc_last.data)

\* C18: encode_quantum_state signals InvalidInput, raised where the data is
\* normalized, when the data has zero L2 norm; it returns no record then.
C18_ZeroNormSignalled ==
    (/\ enc_last.op = "encode"
     /\ enc_last.method \in EncodingMethods
     /\ ~DataNonZero)
        => /\ enc_last.status = "ValueError"
           /\ enc_last.raised_at = "normalize"
           /\ enc_last.result = NoResult

\* C19: superdense encoding followed by decoding succeeds and yields exactly
\* four projection values for every even qubit count N >= 2, N = 4 with a
\* four-element input among them.
C19_SuperdenseFourProjections ==
    (/\ EncodedWith("superdense")
     /\ enc_last.error_protection
     /\ enc_n_qubits >= 2
     /\ enc_n_qubits % 2 = 0
     /\ DataNonZero)
        => /\ enc_last.status = "ok"
           /\ LET decoded == DecodeOutcome(enc_last.result, {})
              IN  /\ decoded.status = "ok"
                  /\ Len(decoded.vector.v) = 4

\* C20: the fidelity returned by encode_quantum_state lies in [0, 1] for
\* every method, protection flag and data vector shorter than 2^Q, and
\* amplitude encoding with error protection returns one above 0.99.
C20_FidelityInUnitInterval ==
    /\ (enc_last.op = "encode" /\ enc_last.status = "ok")
          => /\ ~enc_last.result.fidelity.nan
             /\ 0 <= enc_last.result.fidelity.num
             /\ enc_last.result.fidelity.num <= enc_last.result.fidelity.den
    /\ (EncodedWith("amplitude") /\ enc_last.error_protection
            /\ DataShorterThanSpace /\ DataNonZero)
          => /\ enc_last.status = "ok"
             /\ 100 * enc_last.result.fidelity.num > 99 * enc_last.result.fidelity.den

\* C21: create_learning_circuit, given an array, returns for a level in
\* {1, 2, 3} a specification tagged "learning" that carries the manager's
\* n_qubits, the array's shape, the learning profile and the level; for
\* every other level it raises InvalidConfiguration and returns nothing.
C21_InvalidLevelSignalled ==
    (qcm_last.op = "create" /\ qcm_last.input.kind = "ndarray") =>
        IF qcm_last.optimization_level \in {1, 2, 3}
        THEN /\ qcm_last.status = "ok"
             /\ qcm_last.result.type = "learning"
             /\ qcm_last.result.n_qubits = qcm_n_qubits
             /\ qcm_last.result.input_shape = qcm_last.input.shape
             /\ qcm_last.result.config = circuit_configs["learning"]
             /\ qcm_last.result.optimization.level = qcm_last.optimization_level
        ELSE /\ qcm_last.status = "InvalidConfiguration"
             /\ qcm_last.result = NoSpec

\* the circuit has a qubit count and it is the manager's
DeclaresManagerQubits(circuit) ==
    "n_qubits" \in DOMAIN circuit /\ circuit.n_qubits = qcm_n_qubits

\* the circuit's config names one of the three connectivities
DeclaresKnownConnectivity(circuit) ==
    /\ "config" \in DOMAIN circuit
    /\ circuit.config.connectivity \in {"all-to-all", "nearest-neighbor", "custom"}

\* a specification create_learning_circuit returns on this manager
IsOwnLearningCircuit(circuit) ==
    \E d \in ArrayInputs, l \in LevelInputs :
        LET out == CreateOutcome(d, l, {})
        IN  out.status = "ok" /\ [out.result EXCEPT !.timestamp = 0]
                                   = [timestamp |-> 0] @@ Without(circuit, "timestamp")

\* C22: validate_circuit returns valid = the conjunction of its three
\* checks; qubit_count is true exactly when the circuit's n_qubits is the
\* manager's, connectivity exactly when it is one of the three known ones;
\* the manager's own specifications are valid, and a circuit with another
\* n_qubits or none is not.
C22_ValidIsConjunction ==
    (qcm_last.op = "validate" /\ qcm_last.status = "ok") =>
        LET circuit == qcm_last.input
            checks == qcm_last.result.checks
        IN  /\ qcm_last.result.valid
                  = (checks.qubit_count /\ checks.connectivity /\ checks.error_rates)
            /\ checks.qubit_count = DeclaresManagerQubits(circuit)
            /\ checks.connectivity = DeclaresKnownConnectivity(circuit)
            /\ IsOwnLearningCircuit(circuit) => qcm_last.result.valid
            /\ ~DeclaresManagerQubits(circuit) => ~qcm_last.result.valid

\* the record has the keys of an optimization step
IsStepRecord(step) == DOMAIN step = {"step", "before", "after"}

C24_AnalysisAcceptable ==
    mit_last.op = "analyze" =>
        /\ mit_last.status = "ok"
        /\ DOMAIN mit_last.error_rates = {"decoherence", "gate_error", "measurement"}
        /\ \A name \in DOMAIN mit_last.error_rates :
              LET entry == mit_last.error_rates[name]
              IN  /\ entry.threshold = error_models[name].rate
                  /\ 10 * entry.current_rate = 9 * entry.threshold
                  /\ entry.status \in {"acceptable", "needs_mitigation"}
                  /\ (entry.status = "needs_mitigation")
                        = (entry.current_rate > entry.threshold)
                  /\ entry.status = "acceptable"
        /\ mit_last.error_models = error_models

\* the circuit of the tests, with another qubit count, was analyzed
C24_Witness ==
    /\ mit_last.op = "analyze"
    /\ mit_last.status = "ok"
    /\ mit_last.circuit = [LearningCircuit EXCEPT !.n_qubits = qcm_n_qubits + 1]
    /\ mit_last.error_rates["gate_error"].current_rate = (9 * Unit) \div 20000

\* the indices held by a stored state, as a set
QubitSet(id) == {memory_states[id].qubits[i] : i \in 1..Len(memory_states[id].qubits)}

ErrorEvents(log) == {i \in 1..Len(log) : log[i].level = "ERROR"}

\* a failing call told the logger once, last of all, and a call that told
\* the logger of a failure is a failing call
FailureLogged(call) ==
    /\ (call.status # "ok") = (ErrorEvents(call.log) # {})
    /\ call.status # "ok" => ErrorEvents(call.log) = {Len(call.log)}

\* the events of a memory operation itself, without those of the
\* apply_error_mitigation call it makes (that operation tells its own logger)
OwnEvents(log) == SelectSeq(log, LAMBDA e : e.msg \notin MitigationMessages)

\* C23: every failure inside a public operation of the circuit manager,
\* the encoder, the mitigation system or the memory interface reaches the
\* caller as an error, after one ERROR event was given to the logger, and
\* the failing operation returns nothing.
C23_FailuresSurfaced ==
    /\ last.op # "init" =>
          /\ FailureLogged([last EXCEPT !.log = OwnEvents(last.log)])
          /\ (last.op = "store" /\ last.scheme \notin encoding_schemes) =>
                last.status = (IF last.log_failed THEN "LoggingFailure" ELSE "ValueError")
          /\ (last.op = "retrieve" /\ last.state_id \notin DOMAIN last.pre) =>
                last.status = (IF last.log_failed THEN "LoggingFailure" ELSE "KeyError")
          /\ last.log_failed => last.status # "ok"
          /\ last.status # "ok" =>
                /\ last.vector = NoVector
                /\ last.fidelities = NoFidelities
                /\ last.op = "store" => last.state_id \notin ReturnedIdSet
    /\ qcm_last.op # "init" =>
          /\ FailureLogged(qcm_last)
          /\ (qcm_last.op = "create" /\ qcm_last.input.kind # "ndarray") =>
                qcm_last.status = "AttributeError"
          /\ (qcm_last.op = "validate"
                /\ Get(qcm_last.input, "config", EmptyDict) = NotADict) =>
                qcm_last.status = "AttributeError"
          /\ (qcm_last.op = "optimize" /\ "input_data" \in DOMAIN qcm_last.input) =>
                qcm_last.status = "TypeError"
          /\ qcm_last.status # "ok" => qcm_last.result = NoSpec
    /\ enc_last.op \in {"encode", "decode"} =>
          /\ FailureLogged(enc_last)
          /\ enc_last.method \notin EncodingMethods => enc_last.status # "ok"
          /\ enc_last.raised_at # "nowhere" => enc_last.status # "ok"
          /\ enc_last.status # "ok" =>
                (enc_last.result = NoResult /\ enc_last.vector = NoVec)
    /\ mit_last.op # "init" =>
          /\ FailureLogged(mit_last)
          /\ (mit_last.op = "apply" /\ mit_last.status # "ok") =>
                mit_last.applied_strategies = <<>>
          /\ (mit_last.op = "analyze" /\ mit_last.status # "ok") =>
                mit_last.error_rates = <<>>

\* store_state was given a scheme it does not know: ValueError, after the
\* one ERROR event, nothing persisted
C23_Witness ==
    /\ last.op = "store"
    /\ last.scheme \notin encoding_schemes
    /\ last.status = "ValueError"
    /\ last.log = <<Event("ERROR", "State storage failed")>>
    /\ memory_states = last.pre

\* thread t has returned from store_state
Stored(t) == threads[t].op = "store" /\ threads[t].pc = "done"

\* C26: the operations on a shared interface are serialized against
\* memory_states: whenever two store_state calls have both returned, their
\* IDs differ and each is the key of the state its own call built; and a
\* monitor_state_fidelity call that has returned has not failed, whatever
\* store_state ran beside it.
C26_SharedInterfaceSerialized ==
    threads # <<>> =>
        /\ \A a, b \in Threads :
              (a # b /\ Stored(a) /\ Stored(b)) =>
                  /\ threads[a].state_id # threads[b].state_id
                  /\ threads[a].state_id \in DOMAIN memory_states
                  /\ memory_states[threads[a].state_id].qubits
                        = threads[a].memory_state.qubits
        /\ \A t \in Threads :
              (threads[t].op = "monitor" /\ threads[t].pc = "done") =>
                  threads[t].status = "ok"

\* C28: knowledge node IDs are unique: whenever create_knowledge_node or
\* merge_knowledge_nodes has generated an ID, that ID was not a key of
\* knowledge_nodes at that moment, so storing under it replaced no node.
C28_NodeIdsUnique ==
    (kn_last.op \in {"create", "merge"} /\ kn_last.generated # NoNodeId) =>
        kn_last.generated \notin DOMAIN kn_last.before

\* C29: merge_knowledge_nodes is all-or-nothing: it either returns a merged
\* ID, both originals gone and exactly the merged node added, or raises
\* KeyError with knowledge_nodes as before the call.
C29_MergeAllOrNothing ==
    kn_last.op = "merge" =>
        \/ /\ kn_last.status = "ok"
           /\ kn_last.returned \in DOMAIN knowledge_nodes
           /\ DOMAIN knowledge_nodes =
                 (DOMAIN kn_last.before \ {kn_last.args[1], kn_last.args[2]})
                     \cup {kn_last.returned}
           /\ \A id \in DOMAIN knowledge_nodes \ {kn_last.returned} :
                 knowledge_nodes[id] = kn_last.before[id]
        \/ /\ kn_last.status = "KeyError"
           /\ knowledge_nodes = kn_last.before

\* the decoded entries are the given entries in their order, up to one
\* positive factor (the normalisation)
SameUpToScale(decoded, entries) ==
    /\ Len(decoded) = Len(entries)
    /\ \A i \in 1..Len(decoded) : ~decoded[i].nan /\ decoded[i].mag > 0
    /\ \A i, j \in 1..Len(decoded) :
          decoded[i].mag * entries[j].mag = decoded[j].mag * entries[i].mag

\* C30: unprotected amplitude decoding returns one value per non-zero entry:
\* for every data vector d shorter than 2^Q, decode_quantum_state applied to
\* encode_quantum_state(d, 'amplitude', error_protection=False) returns as
\* many values as d has non-zero entries, in the order of those entries.
C30_AmplitudeDecodeDropsZeros ==
    (EncodedWith("amplitude") /\ ~enc_last.error_protection /\ DataShorterThanSpace)
        => /\ enc_last.status = "ok"
           /\ LET decoded == DecodeOutcome(enc_last.result, {})
              IN  /\ decoded.status = "ok"
                  /\ SameUpToScale(decoded.vector.v, NonZero(enc_last.data.v))

====
